---- MODULE Spec2Model ----
(***************************************************************************)
(* A model of the 115 WebDAV accelerator's remote-resource access layer:   *)
(* SimpleLimiter, the listing / download-link caches with their            *)
(* singleflight maps, and the access-token refresh of Pan115API.           *)
(*                                                                         *)
(* JavaScript runs every synchronous segment of a callback to completion,  *)
(* so one action is one such segment: from the point a handler is entered  *)
(* or resumed (an HTTP response, a timer, a settled promise) to its next   *)
(* await on something external.  One clock unit stands for one second.     *)
(***************************************************************************)
EXTENDS Integers, Sequences, FiniteSets, TLC

\* ---------------------------------------------------------------- bounds
MaxTasks == 3          \* tasks submitted to the limiter in SpecLimiter
MaxConcurrency == 2    \* largest configured concurrency
MaxInterval == 2       \* largest configured minIntervalMs
MaxTime == 2           \* free clock ticks after the start
MaxCallers == 2        \* concurrent calls of the public methods in Spec
MaxTtl == 1            \* largest configured cache TTL
MaxRefreshers == 3     \* concurrent calls in SpecAuth
ApiInterval == 1       \* minIntervalMs of the limiters in Spec

\* ------------------------------------------------------ program constants
RefreshDebounce == 2   \* refreshAccessToken: now - _lastRefreshAt < 2000

VARIABLES
  now,                  \* Date.now()
  listLimiter,          \* this._listLimiter
  downloadLimiter,      \* this._downloadLimiter
  fileListCache,        \* this._fileListCache: cid -> {files, expiresAt}
  listInflight,         \* this._listInflight: cid -> promise
  pathToIdCache,        \* this.pathToIdCache: path -> entry
  fileListTtlMs,        \* this.fileListTtlMs
  downloadUrlCache,     \* this._downloadUrlCache: key -> {expiresAt, value}
  downloadUrlInflight,  \* this._downloadUrlInflight: key -> promise
  downloadUrlTtlMs,     \* this.downloadUrlTtlMs
  accessToken,          \* this.accessToken ("" when empty)
  refreshToken,         \* this.refreshToken
  lastRefreshAt,        \* this._lastRefreshAt
  refreshPromise,       \* this._refreshPromise
  refreshRuns,          \* the refresh closures running, each with its position
  task,                 \* where the body of each started limiter task stands
  callers,              \* the calls of the public methods and what they await
  authLog,              \* history: the upstream refreshes that succeeded and the
                        \* onAuthUpdate calls, each with its run and token pair
  starts,               \* history: when each limiter task was started (-1: not yet)
  blockGoHttpClient,    \* WebDAVServer: this.blockGoHttpClient
  req,                  \* the HTTP requests the server's handlers work on
  res,                  \* and the response each of them has sent
  refreshTimers         \* WebDAVServer: this._refreshTimers (map), with the timers
                        \* the runtime holds (pending) and, as history, when the
                        \* last MKCOL came for a parent and whether it was the
                        \* first since the refresh of that parent (last)

limVars == <<listLimiter, downloadLimiter>>
listVars == <<fileListCache, listInflight, pathToIdCache>>
dlVars == <<downloadUrlCache, downloadUrlInflight>>
authVars == <<accessToken, refreshToken, lastRefreshAt, refreshPromise, refreshRuns>>
cfgVars == <<fileListTtlMs, downloadUrlTtlMs>>
davVars == <<blockGoHttpClient, req, res, refreshTimers>>
vars == <<now, listLimiter, downloadLimiter, fileListCache, listInflight,
          pathToIdCache, fileListTtlMs, downloadUrlCache, downloadUrlInflight,
          downloadUrlTtlMs, accessToken, refreshToken, lastRefreshAt,
          refreshPromise, refreshRuns, task, callers, authLog, starts,
          blockGoHttpClient, req, res, refreshTimers>>

\* null / undefined, as records so that they compare with any object
NULL == [null |-> TRUE]
NoEntry == [absent |-> TRUE]
NoVal == [kind |-> "none"]

Max(a, b) == IF a >= b THEN a ELSE b

\* ------------------------------------------------------------ SimpleLimiter
\* A limiter object.  `timers` holds the _drain activations suspended in the
\* interval wait (the item and the time the timer is due), `running` the ones
\* suspended in `await item.taskFn()`.
NewLimiter(c, m) ==
  [concurrency |-> c, minIntervalMs |-> m, active |-> 0, queue |-> <<>>,
   lastStartAt |-> 0, timers |-> {}, running |-> {}]

\* _drain without the interval wait.
DrainNoWait(lim, t) ==
  IF lim.active >= lim.concurrency \/ lim.queue = <<>> THEN lim
  ELSE [lim EXCEPT !.queue = Tail(@), !.active = @ + 1, !.lastStartAt = t,
                   !.running = @ \cup {Head(lim.queue)}]

\* _drain without the capacity check.
DrainNoGuard(lim, t) ==
  IF lim.queue = <<>> THEN lim
  ELSE LET item == Head(lim.queue)
           wait == Max(0, lim.minIntervalMs - (t - lim.lastStartAt))
           l1 == [lim EXCEPT !.queue = Tail(@), !.active = @ + 1]
       IN  IF wait > 0
           THEN [l1 EXCEPT !.timers = @ \cup {[item |-> item, at |-> t + wait]}]
           ELSE [l1 EXCEPT !.lastStartAt = t, !.running = @ \cup {item}]

\* _drain entered at time t, up to its first suspension.
Drain(lim, t) ==
  IF lim.active >= lim.concurrency THEN lim
  ELSE IF lim.queue = <<>> THEN lim
  ELSE LET item == Head(lim.queue)
           wait == Max(0, lim.minIntervalMs - (t - lim.lastStartAt))
           l1 == [lim EXCEPT !.queue = Tail(@), !.active = @ + 1]
       IN  IF wait > 0
           THEN [l1 EXCEPT !.timers = @ \cup {[item |-> item, at |-> t + wait]}]
           ELSE [l1 EXCEPT !.lastStartAt = t, !.running = @ \cup {item}]

\* run(taskFn): enqueue and drain.
Run(lim, item, t) == Drain([lim EXCEPT !.queue = Append(@, item)], t)

\* The interval timer of a suspended _drain fires at time t.
Wake(lim, e, t) ==
  [lim EXCEPT !.timers = @ \ {e}, !.lastStartAt = t, !.running = @ \cup {e.item}]

\* The task's promise settled without the queue being drained again.
FinishNoDrain(lim, item, t) ==
  [lim EXCEPT !.running = @ \ {item}, !.active = @ - 1]

\* The task's promise settled: resolve/reject the item, active--, _drain().
Finish(lim, item, t) ==
  Drain([lim EXCEPT !.running = @ \ {item}, !.active = @ - 1], t)

\* Every item a limiter holds: queued, waiting for the interval, or running.
Pending(lim) ==
  {lim.queue[n] : n \in 1 .. Len(lim.queue)} \cup {e.item : e \in lim.timers} \cup lim.running

\* Tasks the step from limiter l0 to limiter l1 started.
Started(l0, l1) == l1.running \ l0.running

\* The clock at process start: Date.now() is far beyond any interval and
\* beyond the refresh debounce window, counted from the initial timestamps 0.
StartTime == Max(MaxInterval, RefreshDebounce)

\* ------------------------------------------------------------- the remote
Dirs == {"0", "1"}
DirA == [id |-> "1", name |-> "a", type |-> "directory", pickcode |-> ""]
FileM == [id |-> "f1", name |-> "m", type |-> "file", pickcode |-> "p1"]
FileF == [id |-> "f2", name |-> "f", type |-> "file", pickcode |-> "p2"]

\* What formatFileList makes of the listings the upstream may answer with.
UpstreamListings(d) ==
  IF d = "0" THEN {<<DirA, FileM>>, <<FileM>>} ELSE {<<FileF>>, <<>>}

\* What formatPathList makes of the answer's data.path; paths are the
\* sequences of their segments.
PathOf(d) == IF d = "0" THEN <<>> ELSE <<"a">>

\* The answers of the primary listing endpoint: a listing, errNo 20130827
\* ("backup"), another business failure, or a transport error.
ListAnswers(d) ==
  {[kind |-> "ok", files |-> f] : f \in UpstreamListings(d)}
    \cup {[kind |-> "backup"], [kind |-> "fail"], [kind |-> "throw"]}
BackupAnswers(d) ==
  {[kind |-> "ok", files |-> f] : f \in UpstreamListings(d)}
    \cup {[kind |-> "fail"], [kind |-> "throw"]}

\* The download-link keys fileId|pickcode|userAgent: a file, asked for with
\* the default agent (this.userAgent) or with a client's own.
DefaultAgent == "Mozilla"
ClientAgents == {"vlc"}
GoAgent == "Go-http-client/1.1"
Agents == {DefaultAgent} \cup ClientAgents
\* A cache key that leaves the agent out.
DlKeyNoAgent(fileId, pickcode, ua) == fileId \o "|" \o pickcode \o "|"
DlKey(fileId, pickcode, ua) == fileId \o "|" \o pickcode \o "|" \o ua
DlKeys == {DlKey(FileM.id, FileM.pickcode, ua) : ua \in Agents \cup {GoAgent}}
Urls == {"u1", "u2"}

\* The answers of /open/ufile/downurl: a link, an invalid-token code
\* (40140125 / 40140126), another failure or unusable payload, a transport error.
DlAnswers ==
  {[kind |-> "ok", url |-> u] : u \in Urls}
    \cup {[kind |-> "invalid"], [kind |-> "fail"], [kind |-> "throw"]}

\* The answers of /open/refreshToken: a new access token with or without a new
\* refresh token (refresh = ""), no access token, state false, a transport error.
RefreshAnswers ==
  {[kind |-> "ok", access |-> a, refresh |-> r] : a \in {"a1", ""}, r \in {"r1", ""}}
    \cup {[kind |-> "fail"], [kind |-> "throw"]}

\* ----------------------------------------------------------------- caches
\* The test `cached && cached.expiresAt >= Date.now()`.
CacheFreshInclusive(entry, t) == entry # NoEntry /\ entry.expiresAt >= t

\* The test `cached && cached.expiresAt > Date.now()` of getFileList and
\* getDownloadUrl.
CacheFresh(entry, t) == entry # NoEntry /\ entry.expiresAt > t

\* getFileList that never joins an in-flight request.
ListRouteNoJoin(cache, inflight, key, t) ==
  IF CacheFresh(cache[key], t) THEN "hit" ELSE "start"

\* getFileList that does not look into the cache.
ListRouteNoCache(cache, inflight, key, t) ==
  IF inflight[key] # NULL THEN "join" ELSE "start"

\* getFileList up to its decision: the cache, the in-flight map, or a new task.
ListRoute(cache, inflight, key, t) ==
  IF CacheFresh(cache[key], t) THEN "hit"
  ELSE IF inflight[key] # NULL THEN "join"
  ELSE "start"

\* cachePaths(parentPath, files)
RECURSIVE cachePaths(_, _, _)
cachePaths(index, parentPath, files) ==
  IF files = <<>> THEN index
  ELSE LET file == Head(files)
           fullPath == Append(parentPath, file.name)
       IN  cachePaths((fullPath :> file) @@ index, parentPath, Tail(files))

\* invalidateFileListCacheById(cid)
invalidateFileListCacheById(cache, cid) ==
  IF cid \in DOMAIN cache THEN [cache EXCEPT ![cid] = NoEntry] ELSE cache

\* cleanupExpiredCaches on one cache
Sweep(cache, t) ==
  [k \in DOMAIN cache |->
     IF cache[k] # NoEntry /\ cache[k].expiresAt <= t THEN NoEntry ELSE cache[k]]

\* ---------------------------------------------------------------- callers
Callers == 1 .. MaxCallers
\* A call: what was called with what, where it stands, the promise it awaits
\* and what it got; for refreshAccessToken also the credentials as the call
\* found them (seen) and as it left them when it returned (left).
Idle == [op |-> "-", arg |-> "-", pc |-> "idle", site |-> "-", cur |-> "-", idx |-> 0,
         prom |-> NULL, val |-> NoVal, seen |-> NoVal, left |-> NoVal]
\* The call sites of getFileList: a direct call, the loop and the tail of
\* getFileByPath, and the warm-up of refreshDirectoryByPath.
Sites == {"list", "walk", "final", "warm"}
\* The calls arrive in the order of their numbers.
Arrives(c) == callers[c].pc = "idle" /\ \A b \in DOMAIN callers : b < c => callers[b].pc # "idle"
ListItem(d, c, site) == [op |-> "list", key |-> d, by |-> c, site |-> site, ua |-> ""]

\* The stage the body of a task is in right after the limiter started it: its
\* first upstream request is out.  `log` is the history of the task's
\* requests: what it sent and what made it send again; `headers` are the
\* headers of the request of requestWithAutoRefresh sent last.
NoHeaders == [Authorization |-> ""]
NoTask == [pc |-> "-", prom |-> NULL, val |-> NoVal, log |-> <<>>, headers |-> NoHeaders]

\* A retry that goes out with the headers of the first attempt.
keepHeaders(headers, token) == headers

\* applyAuthToHeaders(headers), with the access token held
applyAuthToHeaders(headers, token) ==
  [headers EXCEPT !.Authorization = IF token # "" THEN "Bearer " \o token ELSE ""]
\* config.headers of the first request of a task started now, and of the
\* retry: { ...(config.headers || {}) } with the Authorization set anew
firstHeaders(item) ==
  IF item.op = "dl" THEN applyAuthToHeaders(NoHeaders, accessToken) ELSE NoHeaders
retryHeaders(headers, token) == applyAuthToHeaders(headers, token)
Begin(tk, l0, l1) ==
  [c \in DOMAIN tk |->
     IF \E item \in Started(l0, l1) : item.by = c
     THEN [pc |-> IF (CHOOSE item \in Started(l0, l1) : item.by = c).op = "list"
                  THEN "primary" ELSE "req1",
           prom |-> NULL, val |-> NoVal, log |-> <<"send">>,
           headers |-> firstHeaders(CHOOSE item \in Started(l0, l1) : item.by = c)]
     ELSE tk[c]]

\* The tokens of the configuration: options.accessToken || '' and
\* options.refreshToken || ''.
Configured == [access |-> "a0", refresh |-> "r0"]

\* The object the constructor leaves behind for the callers cs, with the
\* limiter settings (lc, lm) and (dc, dm) and the configured tokens.
InitApi(cs, lc, lm, dc, dm, tok) ==
  /\ now = StartTime
  /\ listLimiter = NewLimiter(lc, lm)
  /\ downloadLimiter = NewLimiter(dc, dm)
  /\ fileListCache = [d \in Dirs |-> NoEntry]
  /\ listInflight = [d \in Dirs |-> NULL]
  /\ pathToIdCache = <<>>
  /\ fileListTtlMs \in 1 .. MaxTtl
  /\ downloadUrlCache = [k \in DlKeys |-> NoEntry]
  /\ downloadUrlInflight = [k \in DlKeys |-> NULL]
  /\ downloadUrlTtlMs \in 1 .. MaxTtl
  /\ accessToken = tok.access
  /\ refreshToken = tok.refresh
  /\ lastRefreshAt = 0
  /\ refreshPromise = NULL
  /\ refreshRuns = {}
  /\ authLog = [refreshed |-> {}, updates |-> {}, count |-> 0]
  /\ task = [c \in cs |-> NoTask]
  /\ callers = [c \in cs |-> Idle]

\* The server the constructor of WebDAVServer leaves behind for the requests
\* cs, none of which has arrived yet.
InitServer(cs, block) ==
  /\ blockGoHttpClient = block
  /\ refreshTimers = [map |-> <<>>, pending |-> {}, last |-> <<>>]
  /\ req = [c \in cs |-> NoVal]
  /\ res = [c \in cs |-> NoVal]

\* Both limiters admit MaxConcurrency tasks, ApiInterval apart.
Init ==
  /\ InitApi(Callers, MaxConcurrency, ApiInterval, MaxConcurrency, ApiInterval, Configured)
  /\ InitServer(Callers, TRUE)
  /\ starts = <<>>

\* getFileList(d) called at call site `site` by caller c, whose record is cr,
\* with the cache as `cache` at that moment: answered from the cache, joined
\* to the in-flight request, or submitted to the limiter.
CallGetFileList(c, cr, d, site, cache) ==
  LET route == ListRoute(cache, listInflight, d, now)
      item == ListItem(d, c, site)
  IN  /\ fileListCache' = cache
      /\ IF route = "hit"
         THEN /\ callers' = [callers EXCEPT ![c] =
                   [cr EXCEPT !.pc = "got", !.site = site, !.prom = NULL,
                              !.val = [kind |-> "ok", files |-> cache[d].files,
                                       src |-> "cache",
                                       stale |-> (cache[d].expiresAt <= now)]]]
              /\ UNCHANGED <<listLimiter, listInflight, task>>
         ELSE IF route = "join"
         THEN /\ callers' = [callers EXCEPT ![c] =
                   [cr EXCEPT !.pc = "await", !.site = site, !.prom = listInflight[d]]]
              /\ UNCHANGED <<listLimiter, listInflight, task>>
         ELSE /\ listLimiter' = Run(listLimiter, item, now)
              /\ task' = Begin(task, listLimiter, listLimiter')
              /\ listInflight' = [listInflight EXCEPT ![d] = item]
              /\ callers' = [callers EXCEPT ![c] =
                   [cr EXCEPT !.pc = "await", !.site = site, !.prom = item]]

\* A caller invokes getFileList(d).
GetFileList(c, d) ==
  /\ Arrives(c)
  /\ CallGetFileList(c, [callers[c] EXCEPT !.op = "list", !.arg = d], d, "list",
                     fileListCache)
  /\ UNCHANGED <<now, downloadLimiter, pathToIdCache, dlVars, authVars, authLog, cfgVars, davVars, starts>>

\* files.find(f => f.name === part)
RECURSIVE Find(_, _)
Find(files, name) ==
  IF files = <<>> THEN NoEntry
  ELSE IF Head(files).name = name THEN Head(files)
  ELSE Find(Tail(files), name)

Null == [kind |-> "null"]
WarmPaths == {<<>>, <<"a">>}

\* A caller invokes refreshDirectoryByPath(p): the root is invalidated and
\* listed at once, any other path is first resolved by getFileByPath, whose
\* loop starts at the root.  The call's record keeps, as history, the upstream
\* listing calls under way at this moment (seen).
RefreshDirectoryByPath(c, p) ==
  /\ Arrives(c)
  /\ LET cr == [callers[c] EXCEPT !.op = "warm", !.arg = p, !.cur = "0", !.idx = 1,
                                  !.seen = listLimiter.running]
     IN  IF p = <<>>
         THEN CallGetFileList(c, cr, "0", "warm", invalidateFileListCacheById(fileListCache, "0"))
         ELSE CallGetFileList(c, cr, "0", "walk", fileListCache)
  /\ UNCHANGED <<now, downloadLimiter, pathToIdCache, dlVars, authVars, authLog, cfgVars, davVars, starts>>

\* refreshDirectoryByPath resumes with the listing it awaited inside
\* getFileByPath: in the loop (site "walk") it looks the segment up and
\* descends, gives up (null) or leaves the loop; after the loop (site "final")
\* it invalidates the directory found and lists it again.
WalkStep(c) ==
  /\ callers[c].pc = "got"
  /\ callers[c].site \in {"walk", "final"}
  /\ LET cr == callers[c]
         parts == cr.arg
         part == parts[cr.idx]
         found == Find(cr.val.files, part)
     IN  IF cr.val.kind = "err"
         THEN /\ callers' = [callers EXCEPT ![c].pc = "done"]
              /\ UNCHANGED <<listLimiter, fileListCache, listInflight, task>>
         ELSE IF cr.site = "final"
         THEN CallGetFileList(c, cr, cr.cur, "warm",
                              invalidateFileListCacheById(fileListCache, cr.cur))
         ELSE IF found = NoEntry
         THEN /\ callers' = [callers EXCEPT ![c].pc = "done", ![c].val = Null]
              /\ UNCHANGED <<listLimiter, fileListCache, listInflight, task>>
         ELSE IF found.type = "file"
         THEN \* a file: getFileByPath returns it (last segment) or null, and
              \* refreshDirectoryByPath returns null either way
              /\ callers' = [callers EXCEPT ![c].pc = "done", ![c].val = Null]
              /\ UNCHANGED <<listLimiter, fileListCache, listInflight, task>>
         ELSE IF cr.idx < Len(parts)
         THEN CallGetFileList(c, [cr EXCEPT !.cur = found.id, !.idx = @ + 1],
                              found.id, "walk", fileListCache)
         ELSE CallGetFileList(c, [cr EXCEPT !.cur = found.id], found.id, "final",
                              fileListCache)
  /\ UNCHANGED <<now, downloadLimiter, pathToIdCache, dlVars, authVars, authLog, cfgVars, davVars, starts>>

\* A finally that leaves the in-flight entry where it is.
KeepRegistered(inflight, key) == inflight

\* finally { this._listInflight.delete(key) } and
\* finally { this._downloadUrlInflight.delete(cacheKey) }
Unregister(inflight, key) == [inflight EXCEPT ![key] = NULL]

\* The promise of a list task settles with `outcome`: the limiter resolves the
\* item and drains, the originator's finally deletes the in-flight entry, and
\* everyone awaiting the promise resumes with the outcome.
SettleList(item, outcome) ==
  /\ listLimiter' = Finish(listLimiter, item, now)
  /\ task' = Begin([task EXCEPT ![item.by] = NoTask], listLimiter, listLimiter')
  /\ listInflight' = Unregister(listInflight, item.key)
  /\ callers' = [c \in DOMAIN callers |->
       IF callers[c].pc = "await" /\ callers[c].prom = item
       THEN [callers[c] EXCEPT !.pc = "got", !.val = outcome]
       ELSE callers[c]]

Fetched(files) == [kind |-> "ok", files |-> files, src |-> "fetch", stale |-> FALSE]
\* What `return []` hands back; src keeps, as history, that the upstream had
\* answered with a failure.
Emptied == [kind |-> "ok", files |-> <<>>, src |-> "failure", stale |-> FALSE]
Failed == [kind |-> "err", files |-> <<>>, src |-> "fetch", stale |-> FALSE]

\* _getFileListImpl from the answer `ans` (of the primary endpoint, or of the
\* secondary one) on: a listing is cached and indexed, a business failure
\* gives [], a transport error is rethrown.
ListDoneAt(item, ans, pathString) ==
  IF ans.kind = "ok"
  THEN /\ fileListCache' = [fileListCache EXCEPT ![item.key] =
            [files |-> ans.files, expiresAt |-> now + fileListTtlMs]]
       /\ pathToIdCache' = cachePaths(pathToIdCache, pathString, ans.files)
       /\ SettleList(item, Fetched(ans.files))
  ELSE /\ UNCHANGED <<fileListCache, pathToIdCache>>
       /\ SettleList(item, IF ans.kind = "fail" THEN Emptied ELSE Failed)
ListDone(item, ans) == ListDoneAt(item, ans, PathOf(item.key))

\* A _getFileListImpl that turns to the secondary endpoint on every failure.
backupOnFailure(ans) == ans.kind \in {"backup", "fail"}

\* response.data.state === false && response.data.errNo === 20130827
useBackup(ans) == ans.kind = "backup"

\* The primary endpoint answers the GET /files of a running list task.
ListResponse(item, ans) ==
  /\ item \in listLimiter.running
  /\ task[item.by].pc = "primary"
  /\ IF useBackup(ans)
     THEN /\ task' = [task EXCEPT ![item.by].pc = "backup",
                                   ![item.by].log = @ \o <<"backup", "send">>]
          /\ UNCHANGED <<listLimiter, listVars, callers>>
     ELSE ListDone(item, ans)
  /\ UNCHANGED <<now, downloadLimiter, dlVars, authVars, authLog, cfgVars, davVars, starts>>

\* The secondary endpoint answers (getFileListFromBackup).
BackupResponse(item, ans) ==
  /\ item \in listLimiter.running
  /\ task[item.by].pc = "backup"
  /\ ListDone(item, ans)
  /\ UNCHANGED <<now, downloadLimiter, dlVars, authVars, authLog, cfgVars, davVars, starts>>

\* The interval timer of a suspended _drain of the list limiter fires.
ListWake(e) ==
  /\ e \in listLimiter.timers
  /\ now >= e.at
  /\ listLimiter' = Wake(listLimiter, e, now)
  /\ task' = Begin(task, listLimiter, listLimiter')
  /\ UNCHANGED <<now, downloadLimiter, listVars, dlVars, authVars, authLog, cfgVars, davVars, callers, starts>>

\* The download task of caller c for a file and agent ua, with what its
\* closure holds: the cache key and userAgentToUse.
DlTask(file, ua, c) ==
  [op |-> "dl", key |-> DlKey(file.id, file.pickcode, ua), by |-> c, site |-> "dl",
   ua |-> ua]
RunOf(c) == [run |-> c]
Refreshed(a, r) == [kind |-> "ok", access |-> a, refresh |-> r]
Auth == [access |-> accessToken, refresh |-> refreshToken, last |-> lastRefreshAt]
Thrown(why) == [kind |-> "err", why |-> why]

\* refreshAccessToken that never reuses the refresh in flight.
RefreshRouteNoJoin(promise, last, access, t) ==
  IF t - last < RefreshDebounce /\ access # "" THEN "debounce" ELSE "start"

\* refreshAccessToken that knows no debounce window.
RefreshRouteNoDebounce(promise, last, access, t) ==
  IF promise # NULL THEN "join" ELSE "start"

\* refreshAccessToken up to its decision: the refresh in flight, the current
\* pair (debounce), or a new upstream refresh.
RefreshRoute(promise, last, access, t) ==
  IF promise # NULL THEN "join"
  ELSE IF t - last < RefreshDebounce /\ access # "" THEN "debounce"
  ELSE "start"

\* A caller invokes refreshAccessToken().
RefreshAccessToken(c) ==
  /\ Arrives(c)
  /\ LET route == RefreshRoute(refreshPromise, lastRefreshAt, accessToken, now)
         cr == [callers[c] EXCEPT !.op = "refresh", !.site = "refresh", !.seen = Auth]
     IN  IF route = "join"
         THEN /\ callers' = [callers EXCEPT ![c] = [cr EXCEPT !.pc = "await", !.prom = refreshPromise]]
              /\ UNCHANGED <<refreshPromise, refreshRuns>>
         ELSE IF route = "debounce"
         THEN /\ callers' = [callers EXCEPT ![c] =
                   [cr EXCEPT !.pc = "got", !.val = Refreshed(accessToken, refreshToken),
                              !.left = Auth]]
              /\ UNCHANGED <<refreshPromise, refreshRuns>>
         ELSE IF refreshToken = ""
         THEN /\ callers' = [callers EXCEPT ![c] =
                   [cr EXCEPT !.pc = "got", !.val = Thrown("empty"), !.left = Auth]]
              /\ UNCHANGED <<refreshPromise, refreshRuns>>
         ELSE /\ refreshRuns' = refreshRuns \cup {[by |-> c, pc |-> "post"]}
              /\ refreshPromise' = RunOf(c)
              /\ callers' = [callers EXCEPT ![c] = [cr EXCEPT !.pc = "await", !.prom = RunOf(c)]]
  /\ UNCHANGED <<now, limVars, listVars, dlVars, cfgVars, davVars, accessToken, refreshToken,
                 lastRefreshAt, task, authLog, starts>>

\* requestWithAutoRefresh that sends the retry whatever the refresh came to.
AfterRefreshRetry(outcome) == "retry"

\* requestWithAutoRefresh after `await this.refreshAccessToken()`: the retry
\* follows when the refresh returned, its error leaves the method when it threw.
AfterRefresh(outcome) == IF outcome.kind = "ok" THEN "retry" ELSE "rethrow"

\* The promise of refresh closure r settles with `outcome`: the originator's
\* finally clears _refreshPromise and everyone awaiting the promise resumes.
\* The credentials are the same before and after this step.
SettleRefresh(r, outcome) ==
  /\ refreshRuns' = refreshRuns \ {r}
  /\ refreshPromise' = NULL
  /\ callers' = [c \in DOMAIN callers |->
       IF callers[c].pc = "await" /\ callers[c].prom = RunOf(r.by)
       THEN [callers[c] EXCEPT !.pc = "got", !.val = outcome, !.left = Auth]
       ELSE callers[c]]
  /\ task' = [c \in DOMAIN task |->
       IF task[c].pc = "awaitRefresh" /\ task[c].prom = RunOf(r.by)
       THEN [task[c] EXCEPT !.pc = AfterRefresh(outcome), !.val = outcome]
       ELSE task[c]]

\* /open/refreshToken answers: on success the tokens and the timestamp are
\* replaced and onAuthUpdate is awaited; otherwise the closure throws.
RefreshResponse(r, ans) ==
  /\ r \in refreshRuns
  /\ r.pc = "post"
  /\ IF ans.kind = "ok" /\ ans.access # ""
     THEN /\ accessToken' = ans.access
          /\ refreshToken' = IF ans.refresh # "" THEN ans.refresh ELSE refreshToken
          /\ lastRefreshAt' = now
          /\ refreshRuns' = (refreshRuns \ {r}) \cup {[r EXCEPT !.pc = "persist"]}
          /\ LET entry == [run |-> RunOf(r.by), pair |-> Refreshed(accessToken', refreshToken')]
             IN  authLog' = [refreshed |-> authLog.refreshed \cup {entry},
                             updates |-> authLog.updates \cup {entry},
                             count |-> authLog.count + 1]
          /\ UNCHANGED <<refreshPromise, callers, task>>
     ELSE /\ SettleRefresh(r, Thrown(IF ans.kind = "ok" THEN "noAccessToken" ELSE ans.kind))
          /\ UNCHANGED <<accessToken, refreshToken, lastRefreshAt, authLog>>
  /\ UNCHANGED <<now, limVars, listVars, dlVars, cfgVars, davVars, starts>>

\* onAuthUpdate settles: the closure returns the pair held now, or throws what
\* the callback threw (its await is not guarded).
PersistDone(r, ok) ==
  /\ r \in refreshRuns
  /\ r.pc = "persist"
  /\ SettleRefresh(r, IF ok THEN Refreshed(accessToken, refreshToken) ELSE Thrown("onAuthUpdate"))
  /\ UNCHANGED <<now, limVars, listVars, dlVars, cfgVars, davVars, accessToken, refreshToken,
                 lastRefreshAt, authLog, starts>>

\* getDownloadUrl that never joins an in-flight request.
DlRouteNoJoin(cache, inflight, key, t) ==
  IF CacheFresh(cache[key], t) THEN "hit" ELSE "start"

\* getDownloadUrl up to its decision.
DlRoute(cache, inflight, key, t) ==
  IF CacheFresh(cache[key], t) THEN "hit"
  ELSE IF inflight[key] # NULL THEN "join"
  ELSE "start"

\* getDownloadUrl(file.id, file.pickcode, ua) called by caller c, whose record
\* is cr; ua = "" stands for no client agent given.
CallGetDownloadUrl(c, cr0, file, ua) ==
  LET userAgentToUse == IF ua = "" THEN DefaultAgent ELSE ua
      key == DlKey(file.id, file.pickcode, userAgentToUse)
      item == DlTask(file, userAgentToUse, c)
      route == DlRoute(downloadUrlCache, downloadUrlInflight, key, now)
      cr == [cr0 EXCEPT !.arg = key, !.site = "dl"]
  IN  IF route = "hit"
      THEN /\ callers' = [callers EXCEPT ![c] =
                [cr EXCEPT !.pc = "got", !.prom = NULL,
                           !.val = [kind |-> "ok", link |-> downloadUrlCache[key].value,
                                    src |-> "cache",
                                    stale |-> (downloadUrlCache[key].expiresAt <= now)]]]
           /\ UNCHANGED <<downloadLimiter, dlVars, task>>
      ELSE /\ downloadUrlCache' = [downloadUrlCache EXCEPT ![key] = NoEntry]
           /\ IF route = "join"
              THEN /\ callers' = [callers EXCEPT ![c] =
                        [cr EXCEPT !.pc = "await", !.prom = downloadUrlInflight[key]]]
                   /\ UNCHANGED <<downloadLimiter, downloadUrlInflight, task>>
              ELSE /\ downloadLimiter' = Run(downloadLimiter, item, now)
                   /\ task' = Begin(task, downloadLimiter, downloadLimiter')
                   /\ downloadUrlInflight' = [downloadUrlInflight EXCEPT ![key] = item]
                   /\ callers' = [callers EXCEPT ![c] =
                        [cr EXCEPT !.pc = "await", !.prom = item]]

\* A caller invokes getDownloadUrl for FileM.  The call's record keeps, as
\* history, the agent it was called with (seen).
GetDownloadUrl(c, ua) ==
  /\ Arrives(c)
  /\ CallGetDownloadUrl(c, [callers[c] EXCEPT !.op = "dl", !.seen = [ua |-> ua]], FileM, ua)
  /\ UNCHANGED <<now, listLimiter, listVars, authVars, authLog, cfgVars, davVars, starts>>

\* The promise of a download task settles.
SettleDl(item, outcome) ==
  /\ downloadLimiter' = Finish(downloadLimiter, item, now)
  /\ task' = Begin([task EXCEPT ![item.by] = NoTask], downloadLimiter, downloadLimiter')
  /\ downloadUrlInflight' = Unregister(downloadUrlInflight, item.key)
  /\ callers' = [c \in DOMAIN callers |->
       IF callers[c].pc = "await" /\ callers[c].prom = item
       THEN [callers[c] EXCEPT !.pc = "got", !.val = outcome]
       ELSE callers[c]]

\* The download task from the response it works on: a link is cached and
\* returned with the agent it was minted for, anything else is thrown.
DlDone(item, ans) ==
  IF ans.kind = "ok"
  THEN LET result == [url |-> ans.url, userAgent |-> item.ua]
       IN  /\ downloadUrlCache' = [downloadUrlCache EXCEPT ![item.key] =
                [expiresAt |-> now + downloadUrlTtlMs, value |-> result]]
           /\ SettleDl(item, [kind |-> "ok", link |-> result, src |-> "fetch", stale |-> FALSE])
  ELSE /\ UNCHANGED downloadUrlCache
       /\ SettleDl(item, Thrown(ans.kind))

\* requestWithAutoRefresh gets the first response of a download task.  An
\* invalid-token code calls refreshAccessToken and retries once.
DlResponse(item, ans) ==
  /\ item \in downloadLimiter.running
  /\ task[item.by].pc = "req1"
  /\ IF ans.kind = "invalid"
     THEN LET route == RefreshRoute(refreshPromise, lastRefreshAt, accessToken, now)
          IN  /\ IF route = "join"
                 THEN /\ task' = [task EXCEPT ![item.by].pc = "awaitRefresh",
                                                ![item.by].prom = refreshPromise,
                                                ![item.by].log = @ \o <<"invalid", "refresh">>]
                      /\ UNCHANGED <<refreshPromise, refreshRuns, downloadLimiter,
                                     downloadUrlInflight, callers>>
                 ELSE IF route = "debounce"
                 THEN /\ task' = [task EXCEPT ![item.by].pc = "req2",
                                                ![item.by].log = @ \o <<"invalid", "refresh", "send">>,
                                                ![item.by].headers = retryHeaders(@, accessToken)]
                      /\ UNCHANGED <<refreshPromise, refreshRuns, downloadLimiter,
                                     downloadUrlInflight, callers>>
                 ELSE IF refreshToken = ""
                 THEN /\ SettleDl(item, Thrown("empty"))
                      /\ UNCHANGED <<refreshPromise, refreshRuns>>
                 ELSE /\ refreshRuns' = refreshRuns \cup {[by |-> item.by, pc |-> "post"]}
                      /\ refreshPromise' = RunOf(item.by)
                      /\ task' = [task EXCEPT ![item.by].pc = "awaitRefresh",
                                                ![item.by].prom = RunOf(item.by),
                                                ![item.by].log = @ \o <<"invalid", "refresh">>]
                      /\ UNCHANGED <<downloadLimiter, downloadUrlInflight, callers>>
              /\ UNCHANGED downloadUrlCache
     ELSE /\ DlDone(item, ans)
          /\ UNCHANGED <<refreshPromise, refreshRuns>>
  /\ UNCHANGED <<now, listLimiter, listVars, cfgVars, davVars, accessToken, refreshToken,
                 lastRefreshAt, authLog, starts>>

\* A download task resumes after the refresh it awaited: the retry is sent, or
\* the refresh error is rethrown.
DlResume(item) ==
  /\ item \in downloadLimiter.running
  /\ task[item.by].pc \in {"retry", "rethrow"}
  /\ IF task[item.by].pc = "retry"
     THEN /\ task' = [task EXCEPT ![item.by].pc = "req2", ![item.by].log = Append(@, "send"),
                                   ![item.by].headers = retryHeaders(@, accessToken)]
          /\ UNCHANGED <<downloadLimiter, dlVars, callers>>
     ELSE /\ SettleDl(item, task[item.by].val)
          /\ UNCHANGED downloadUrlCache
  /\ UNCHANGED <<now, listLimiter, listVars, authVars, authLog, cfgVars, davVars, starts>>

\* The response to the retry is returned as it is.
DlRetryResponse(item, ans) ==
  /\ item \in downloadLimiter.running
  /\ task[item.by].pc = "req2"
  /\ DlDone(item, ans)
  /\ UNCHANGED <<now, listLimiter, listVars, authVars, authLog, cfgVars, davVars, starts>>

\* The interval timer of a suspended _drain of the download limiter fires.
DlWake(e) ==
  /\ e \in downloadLimiter.timers
  /\ now >= e.at
  /\ downloadLimiter' = Wake(downloadLimiter, e, now)
  /\ task' = Begin(task, downloadLimiter, downloadLimiter')
  /\ UNCHANGED <<now, listLimiter, listVars, dlVars, authVars, authLog, cfgVars, davVars,
                 callers, starts>>

\* path.split('/').filter(p => p): the names of the segments, with the segment
\* being read (seg) and the ones read so far (acc).
RECURSIVE SplitPath(_, _, _)
SplitPath(s, seg, acc) ==
  IF s = <<>> THEN (IF seg = "" THEN acc ELSE Append(acc, seg))
  ELSE IF Head(s) = "/" THEN SplitPath(Tail(s), "", IF seg = "" THEN acc ELSE Append(acc, seg))
  ELSE SplitPath(Tail(s), seg \o Head(s), acc)

\* ------------------------------------------------ what the upstream sends
\* The items of an upstream listing with the fields formatFileList reads: fid,
\* cid, n and pc, "" for a field that is missing.  A file carries the id of
\* its directory as cid.  Strings are sequences of pieces here; RootName
\* stands for the name the upstream gives the root in data.path.
RootName == "ROOT"
RawItems ==
  {[fid |-> "f1", cid |-> "1", n |-> "movie.mp4", pc |-> "p1"],
   [fid |-> "", cid |-> "1", n |-> "Shows", pc |-> ""],
   [fid |-> "", cid |-> "2", n |-> "movie.mp4", pc |-> ""],
   [fid |-> "", cid |-> "0", n |-> "x", pc |-> ""],
   [fid |-> "", cid |-> "", n |-> "y", pc |-> ""]}
MaxItems == 2          \* items of one upstream listing
RawLists == UNION {[1 .. n -> RawItems] : n \in 0 .. MaxItems}
UpstreamPaths(d) == IF d = "0" THEN {<<>>, <<RootName>>} ELSE {<<RootName, "a">>}
RawAnswers(d) == {[data |-> l, path |-> q] : l \in RawLists, q \in UpstreamPaths(d)}

\* A formatFileList that looks at cid before fid.
RECURSIVE cidFirst(_)
cidFirst(items) ==
  IF items = <<>> THEN <<>>
  ELSE LET item == Head(items)
       IN  IF item.cid # "" /\ item.cid # "0"
           THEN <<[id |-> item.cid, name |-> item.n, type |-> "directory",
                   pickcode |-> item.pc]>> \o cidFirst(Tail(items))
           ELSE IF item.fid # ""
           THEN <<[id |-> item.fid, name |-> item.n, type |-> "file",
                   pickcode |-> item.pc]>> \o cidFirst(Tail(items))
           ELSE cidFirst(Tail(items))

\* formatFileList(data), with the fields of an entry the model keeps
RECURSIVE formatFileList(_)
formatFileList(items) ==
  IF items = <<>> THEN <<>>
  ELSE LET item == Head(items)
       IN  IF item.fid # ""
           THEN <<[id |-> item.fid, name |-> item.n, type |-> "file",
                   pickcode |-> item.pc]>> \o formatFileList(Tail(items))
           ELSE IF item.cid # "" /\ item.cid # "0"
           THEN <<[id |-> item.cid, name |-> item.n, type |-> "directory",
                   pickcode |-> item.pc]>> \o formatFileList(Tail(items))
           ELSE formatFileList(Tail(items))

\* formatPathList(data): the loop over data.path from pathString on, then the
\* trailing slash is cut.
RECURSIVE formatPathList(_, _)
formatPathList(pathList, pathString) ==
  IF pathList = <<>>
  THEN IF Len(pathString) > 1 /\ pathString[Len(pathString)] = "/"
       THEN SubSeq(pathString, 1, Len(pathString) - 1) ELSE pathString
  ELSE formatPathList(Tail(pathList),
                      IF Head(pathList) = RootName THEN <<"/">>
                      ELSE pathString \o <<Head(pathList), "/">>)

\* The primary endpoint answers a running list task with a listing
\* (_getFileListImpl from the answer on).
RawResponse(item, raw) ==
  /\ item \in listLimiter.running
  /\ task[item.by].pc = "primary"
  /\ \E files \in {formatFileList(raw.data)} :
     \E pathString \in {formatPathList(raw.path, <<"/">>)} :
       ListDoneAt(item, [kind |-> "ok", files |-> files], SplitPath(pathString, "", <<>>))
  /\ UNCHANGED <<now, downloadLimiter, dlVars, authVars, authLog, cfgVars, davVars, starts>>

InitFormat ==
  /\ InitApi(Callers, MaxConcurrency, 0, MaxConcurrency, 0, Configured)
  /\ InitServer({1}, FALSE)
  /\ starts = <<>>

NextFormat ==
  \/ \E c \in Callers, d \in Dirs : GetFileList(c, d)
  \/ \E item \in listLimiter.running : \E raw \in RawAnswers(item.key) :
       RawResponse(item, raw)

SpecFormat == InitFormat /\ [][NextFormat]_vars

\* invalidateByPath that looks the path up as it was given.
KeepSlashes(path) == path

\* path.replace(/\/+$/g, ''): the path without its trailing slashes.
RECURSIVE trimSlashes(_)
trimSlashes(path) ==
  IF path # <<>> /\ path[Len(path)] = "/" THEN trimSlashes(SubSeq(path, 1, Len(path) - 1))
  ELSE path

\* The key of the path index for the string p.  The index is keyed by the
\* strings parentPath/name that cachePaths builds, which the model holds as the
\* sequences of their segments; a string with a trailing slash is nobody's key.
IndexKey(p) ==
  IF p # <<>> /\ p[Len(p)] = "/" THEN <<"/">> ELSE SplitPath(p, "", <<>>)

\* invalidateByPath(path): the index and the listing cache afterwards, and the
\* id returned.
invalidateByPath(index, cache, path) ==
  LET p == IF path = <<"/">> THEN path ELSE trimSlashes(path)
      hit == IF IndexKey(p) \in DOMAIN index THEN index[IndexKey(p)] ELSE NoEntry
      c1 == IF hit # NoEntry /\ hit.id # ""
            THEN invalidateFileListCacheById(cache, hit.id) ELSE cache
      c2 == IF p = <<"/">> THEN invalidateFileListCacheById(c1, "0") ELSE c1
  IN  [index |-> [q \in DOMAIN index \ {IndexKey(p)} |-> index[q]],
       cache |-> c2,
       id |-> IF hit # NoEntry /\ hit.id # "" THEN hit.id ELSE NULL]

\* The paths the server invalidates: what normalizeDecodedPath hands to
\* /__refresh, with or without a trailing slash.
InvalidatePaths == {<<"/">>, <<"/", "a">>, <<"/", "a", "/">>, <<"/", "m">>}

InvalidateByPath(p) ==
  /\ LET r == invalidateByPath(pathToIdCache, fileListCache, p)
     IN  /\ pathToIdCache' = r.index
         /\ fileListCache' = r.cache
  /\ UNCHANGED <<now, limVars, listInflight, dlVars, authVars, authLog, cfgVars, davVars, task, callers, starts>>

CleanupExpiredCaches ==
  /\ fileListCache' = Sweep(fileListCache, now)
  /\ downloadUrlCache' = Sweep(downloadUrlCache, now)
  /\ UNCHANGED <<now, limVars, listInflight, pathToIdCache, downloadUrlInflight,
                 authVars, authLog, cfgVars, davVars, task, callers, starts>>

\* Something still compares the clock with a time ahead of it: an unexpired
\* cache entry, the refresh debounce window, a limiter's interval.
Observed ==
  \/ \E d \in Dirs : fileListCache[d] # NoEntry /\ fileListCache[d].expiresAt > now
  \/ \E k \in DlKeys : downloadUrlCache[k] # NoEntry /\ downloadUrlCache[k].expiresAt > now
  \/ now - lastRefreshAt < RefreshDebounce
  \/ now - listLimiter.lastStartAt < listLimiter.minIntervalMs
  \/ now - downloadLimiter.lastStartAt < downloadLimiter.minIntervalMs

\* Time passes.  Timers may fire late, so the clock is not held back by them.
\* It is advanced only while something observes it (a later clock value is
\* then indistinguishable), and beyond the bound only as far as a pending
\* timer needs.
Tick ==
  /\ \/ now < StartTime + MaxTime /\ Observed
     \/ \E e \in listLimiter.timers \cup downloadLimiter.timers : e.at > now
  /\ now' = now + 1
  /\ UNCHANGED <<limVars, listVars, dlVars, authVars, authLog, cfgVars, davVars, task, callers, starts>>

Next ==
  \/ \E c \in Callers, d \in Dirs : GetFileList(c, d)
  \/ \E item \in listLimiter.running : \E ans \in ListAnswers(item.key) :
       ListResponse(item, ans)
  \/ \E item \in listLimiter.running : \E ans \in BackupAnswers(item.key) :
       BackupResponse(item, ans)
  \/ \E e \in listLimiter.timers : ListWake(e)
  \/ \E c \in Callers : RefreshDirectoryByPath(c, <<>>)
  \/ \E c \in Callers, ua \in {""} \cup ClientAgents : GetDownloadUrl(c, ua)
  \/ \E item \in downloadLimiter.running, ans \in DlAnswers : DlResponse(item, ans)
  \/ \E item \in downloadLimiter.running : DlResume(item)
  \/ \E item \in downloadLimiter.running, ans \in DlAnswers : DlRetryResponse(item, ans)
  \/ \E e \in downloadLimiter.timers : DlWake(e)
  \/ \E c \in Callers : RefreshAccessToken(c)
  \/ \E r \in refreshRuns, ans \in RefreshAnswers : RefreshResponse(r, ans)
  \/ \E r \in refreshRuns, ok \in BOOLEAN : PersistDone(r, ok)
  \/ \E p \in InvalidatePaths : InvalidateByPath(p)
  \/ CleanupExpiredCaches
  \/ Tick

Spec == Init /\ [][Next]_vars

\* --------------------------------------------- one task at a time per limiter
\* Both limiters with concurrency 1; paths below the root are resolved by
\* getFileByPath.
InitOne ==
  /\ InitApi(Callers, 1, ApiInterval, 1, ApiInterval, Configured)
  /\ InitServer(Callers, TRUE)
  /\ starts = <<>>

\* What the calls made so far go on to do: the upstream and onAuthUpdate
\* answer, timers fire, time passes, and the code after an await runs.
Proceed ==
  \/ \E item \in listLimiter.running : \E ans \in ListAnswers(item.key) :
       ListResponse(item, ans)
  \/ \E item \in listLimiter.running : \E ans \in BackupAnswers(item.key) :
       BackupResponse(item, ans)
  \/ \E e \in listLimiter.timers : ListWake(e)
  \/ \E c \in Callers : WalkStep(c)
  \/ \E item \in downloadLimiter.running, ans \in DlAnswers : DlResponse(item, ans)
  \/ \E item \in downloadLimiter.running : DlResume(item)
  \/ \E item \in downloadLimiter.running, ans \in DlAnswers : DlRetryResponse(item, ans)
  \/ \E e \in downloadLimiter.timers : DlWake(e)
  \/ \E r \in refreshRuns, ans \in RefreshAnswers : RefreshResponse(r, ans)
  \/ \E r \in refreshRuns, ok \in BOOLEAN : PersistDone(r, ok)
  \/ Tick

NextOne ==
  \/ \E c \in Callers, d \in Dirs : GetFileList(c, d)
  \/ \E c \in Callers, p \in WarmPaths : RefreshDirectoryByPath(c, p)
  \/ \E c \in Callers, ua \in {""} \cup ClientAgents : GetDownloadUrl(c, ua)
  \/ Proceed

SpecOne == InitOne /\ [][NextOne]_vars

\* The event loop does not stop while it has work.
FairOne == SpecOne /\ WF_vars(Proceed)

\* ------------------------------------------------ the listing side on its own
\* with paths below the root resolved by getFileByPath, and any concurrency
InitList ==
  /\ \E c \in 1 .. MaxConcurrency :
       InitApi(Callers, c, ApiInterval, c, ApiInterval, Configured)
  /\ InitServer(Callers, TRUE)
  /\ starts = <<>>

NextList ==
  \/ \E c \in Callers, d \in Dirs : GetFileList(c, d)
  \/ \E item \in listLimiter.running : \E ans \in ListAnswers(item.key) :
       ListResponse(item, ans)
  \/ \E item \in listLimiter.running : \E ans \in BackupAnswers(item.key) :
       BackupResponse(item, ans)
  \/ \E e \in listLimiter.timers : ListWake(e)
  \/ \E c \in Callers, p \in WarmPaths : RefreshDirectoryByPath(c, p)
  \/ \E c \in Callers : WalkStep(c)
  \/ \E p \in InvalidatePaths : InvalidateByPath(p)
  \/ CleanupExpiredCaches
  \/ Tick

SpecList == InitList /\ [][NextList]_vars

\* ------------------------------------- download links and the token refresh
\* with more callers, who ask for links with the default agent
Refreshers == 1 .. MaxRefreshers

InitAuth ==
  /\ InitApi(Refreshers, MaxConcurrency, ApiInterval, MaxConcurrency, ApiInterval, Configured)
  /\ InitServer(Refreshers, TRUE)
  /\ starts = <<>>

NextAuth ==
  \/ \E c \in Refreshers : GetDownloadUrl(c, "")
  \/ \E item \in downloadLimiter.running, ans \in DlAnswers : DlResponse(item, ans)
  \/ \E item \in downloadLimiter.running : DlResume(item)
  \/ \E item \in downloadLimiter.running, ans \in DlAnswers : DlRetryResponse(item, ans)
  \/ \E e \in downloadLimiter.timers : DlWake(e)
  \/ \E c \in Refreshers : RefreshAccessToken(c)
  \/ \E r \in refreshRuns, ans \in RefreshAnswers : RefreshResponse(r, ans)
  \/ \E r \in refreshRuns, ok \in BOOLEAN : PersistDone(r, ok)
  \/ CleanupExpiredCaches
  \/ Tick

SpecAuth == InitAuth /\ [][NextAuth]_vars

\* The same with any configuration of the tokens, either of which may be
\* missing ('').
InitTokens ==
  /\ \E a \in {"a0", ""}, r \in {"r0", ""} :
       InitApi(Refreshers, MaxConcurrency, ApiInterval, MaxConcurrency, ApiInterval,
               [access |-> a, refresh |-> r])
  /\ InitServer(Refreshers, TRUE)
  /\ starts = <<>>

SpecTokens == InitTokens /\ [][NextAuth]_vars

\* ------------------------------------ the bodies of /open/ufile/downurl
\* A body is empty, has state false (with a code other than the invalid-token
\* ones), or has a data object: its entries in the order of Object.keys, each
\* the id of a file with a payload that is null, has no url, or has the link
\* of that file.  The upstream answers for FileM and, at times, for another
\* file or for that one only.
Bodies ==
  LET payloads(k) == {[key |-> k, shape |-> sh, url |-> IF k = FileM.id THEN "u1" ELSE "u2"] :
                        sh \in {"null", "nourl", "link"}}
      entries == payloads(FileM.id) \cup payloads(FileF.id)
  IN  {[kind |-> "empty", data |-> <<>>], [kind |-> "false", data |-> <<>>]}
        \cup {[kind |-> "data", data |-> d] :
               d \in {<<>>} \cup {<<e>> : e \in entries}
                      \cup {<<e, f>> : e \in payloads(FileM.id), f \in payloads(FileF.id)}
                      \cup {<<f, e>> : e \in payloads(FileM.id), f \in payloads(FileF.id)}}

NoPayload == [key |-> "", shape |-> "null", url |-> ""]

\* A selection that takes the first payload whatever its key.
firstPayload(data, fileIdStr) == IF data = <<>> THEN NoPayload ELSE data[1]

\* fileData: data[fileIdStr] when that is truthy, else the payload of the first
\* key.
fileData(data, fileIdStr) ==
  IF \E i \in 1 .. Len(data) : data[i].key = fileIdStr /\ data[i].shape # "null"
  THEN data[CHOOSE i \in 1 .. Len(data) : data[i].key = fileIdStr]
  ELSE IF data = <<>> THEN NoPayload ELSE data[1]

\* What the download task makes of a body: the link, or one of its errors.
downurl(body, fileId) ==
  IF body.kind # "data" \/ body.data = <<>> THEN [kind |-> "fail"]
  ELSE IF fileData(body.data, fileId).shape # "link" THEN [kind |-> "fail"]
  ELSE [kind |-> "ok", url |-> fileData(body.data, fileId).url]

\* The upstream answers the request of a download task with a body.
DlPayload(item, body) == DlResponse(item, downurl(body, FileM.id))

NextPayload ==
  \/ \E c \in Refreshers : GetDownloadUrl(c, "")
  \/ \E item \in downloadLimiter.running, body \in Bodies : DlPayload(item, body)
  \/ \E e \in downloadLimiter.timers : DlWake(e)
  \/ CleanupExpiredCaches
  \/ Tick

SpecPayload == InitAuth /\ [][NextPayload]_vars

\* ------------------------------------------------- the limiter on its own
Tasks == 1 .. MaxTasks
TaskItem(i) == [op |-> "task", key |-> "-", by |-> i, site |-> "-", ua |-> ""]

apiVars == <<downloadLimiter, listVars, dlVars, authVars, authLog, cfgVars, davVars, task>>

InitLimiter ==
  /\ \E c \in 1 .. MaxConcurrency, m \in 1 .. MaxInterval :
       InitApi(Tasks, c, m, 1, 0, Configured)
  /\ InitServer(Tasks, TRUE)
  /\ starts = [i \in Tasks |-> -1]

LogStarts(l0, l1) ==
  starts' = [i \in Tasks |-> IF TaskItem(i) \in Started(l0, l1) THEN now ELSE starts[i]]

LRun(i) ==
  /\ Arrives(i)
  /\ listLimiter' = Run(listLimiter, TaskItem(i), now)
  /\ callers' = [callers EXCEPT ![i].pc = "await"]
  /\ LogStarts(listLimiter, listLimiter')
  /\ UNCHANGED <<now, apiVars>>

LWake(e) ==
  /\ e \in listLimiter.timers
  /\ now >= e.at
  /\ listLimiter' = Wake(listLimiter, e, now)
  /\ LogStarts(listLimiter, listLimiter')
  /\ UNCHANGED <<now, callers, apiVars>>

\* The task of item i settles with outcome oc ("ok" or "err") and its own value.
LSettle(i, oc) ==
  /\ TaskItem(i) \in listLimiter.running
  /\ listLimiter' = Finish(listLimiter, TaskItem(i), now)
  /\ callers' = [callers EXCEPT ![i].pc = "done", ![i].val = [kind |-> oc, of |-> i]]
  /\ LogStarts(listLimiter, listLimiter')
  /\ UNCHANGED <<now, apiVars>>

\* Time passes.  Timers may fire late, so the clock is not held back by them;
\* beyond MaxTime it advances only as far as a pending timer needs.
LTick ==
  /\ \/ now < StartTime + MaxTime
     \/ \E e \in listLimiter.timers : e.at > now
  /\ now' = now + 1
  /\ UNCHANGED <<listLimiter, callers, starts, apiVars>>

NextLimiter ==
  \/ \E i \in Tasks : LRun(i)
  \/ \E e \in listLimiter.timers : LWake(e)
  \/ \E i \in Tasks, oc \in {"ok", "err"} : LSettle(i, oc)
  \/ LTick

SpecLimiter == InitLimiter /\ [][NextLimiter]_vars

\* Timers fire, started tasks settle and time passes.
FairLimiter ==
  /\ SpecLimiter
  /\ WF_vars(LTick)
  /\ WF_vars(\E e \in listLimiter.timers : LWake(e))
  /\ WF_vars(\E i \in Tasks, oc \in {"ok", "err"} : LSettle(i, oc))

StartedTasks == {i \in Tasks : starts[i] >= 0}
Apart(i, j) == IF starts[i] >= starts[j] THEN starts[i] - starts[j] ELSE starts[j] - starts[i]

\* ------------------------------------------- the WebDAV server: request paths
\* The strings the server takes apart are the sequences of their characters.
MaxPathLen == 5        \* longest request path drawn in SpecPath

HexDigits == <<"0", "1", "2", "3", "4", "5", "6", "7", "8", "9", "A", "B", "C", "D", "E", "F">>
\* The printable ASCII characters, from the space (0x20) to the tilde (0x7E);
\* the backquote, which a string here cannot hold, is written <60>.
Ascii ==
  <<" ", "!", "\"", "#", "$", "%", "&", "'", "(", ")", "*", "+", ",", "-", ".", "/",
    "0", "1", "2", "3", "4", "5", "6", "7", "8", "9", ":", ";", "<", "=", ">", "?",
    "@", "A", "B", "C", "D", "E", "F", "G", "H", "I", "J", "K", "L", "M", "N", "O",
    "P", "Q", "R", "S", "T", "U", "V", "W", "X", "Y", "Z", "[", "\\", "]", "^", "_",
    "<60>", "a", "b", "c", "d", "e", "f", "g", "h", "i", "j", "k", "l", "m", "n", "o",
    "p", "q", "r", "s", "t", "u", "v", "w", "x", "y", "z", "{", "|", "}", "~">>

\* The character of an octet; one that does not print is written <XX>.
Chr(b) ==
  IF b >= 32 /\ b <= 126 THEN Ascii[b - 31]
  ELSE "<" \o HexDigits[(b \div 16) + 1] \o HexDigits[(b % 16) + 1] \o ">"

\* The octet of the escape %XX at position k of s, -1 when there is none.
EscapeAt(s, k) ==
  LET lower == <<"0", "1", "2", "3", "4", "5", "6", "7", "8", "9", "a", "b", "c", "d", "e", "f">>
      IsHex(ch) == \E i \in 1 .. 16 : HexDigits[i] = ch \/ lower[i] = ch
      HexVal(ch) == (CHOOSE i \in 1 .. 16 : HexDigits[i] = ch \/ lower[i] = ch) - 1
  IN  IF k + 2 <= Len(s) /\ s[k] = "%" /\ IsHex(s[k + 1]) /\ IsHex(s[k + 2])
      THEN 16 * HexVal(s[k + 1]) + HexVal(s[k + 2])
      ELSE -1

\* The length of the UTF-8 sequence the octet b leads, 0 when it leads none.
Utf8Len(b) ==
  IF b >= 194 /\ b <= 223 THEN 2
  ELSE IF b >= 224 /\ b <= 239 THEN 3
  ELSE IF b >= 240 /\ b <= 244 THEN 4
  ELSE 0

\* decodeURIComponent(s) from position k on, with what is decoded so far: an
\* escape is replaced by its character, a character beyond ASCII (written with
\* its octets) when the escapes at k, k+3, ... are one well-formed UTF-8
\* sequence; anything else after a % is a URIError.
RECURSIVE decodeURIComponent(_, _, _)
decodeURIComponent(s, k, acc) ==
  IF k > Len(s) THEN [ok |-> TRUE, str |-> acc]
  ELSE IF s[k] # "%" THEN decodeURIComponent(s, k + 1, Append(acc, s[k]))
  ELSE LET b == EscapeAt(s, k)
           n == Utf8Len(b)
           o(i) == EscapeAt(s, k + 3 * i)
           wellFormed ==
             /\ n > 0
             /\ \A i \in 1 .. n - 1 :
                  /\ o(i) >= 128 /\ o(i) <= 191
                  /\ i = 1 /\ b = 224 => o(i) >= 160
                  /\ i = 1 /\ b = 237 => o(i) <= 159
                  /\ i = 1 /\ b = 240 => o(i) >= 144
                  /\ i = 1 /\ b = 244 => o(i) <= 143
           ch == Chr(b) \o Chr(o(1)) \o (IF n >= 3 THEN Chr(o(2)) ELSE "")
                   \o (IF n >= 4 THEN Chr(o(3)) ELSE "")
       IN  IF b < 0 THEN [ok |-> FALSE, str |-> <<>>]
           ELSE IF b < 128 THEN decodeURIComponent(s, k + 3, Append(acc, Chr(b)))
           ELSE IF ~wellFormed THEN [ok |-> FALSE, str |-> <<>>]
           ELSE decodeURIComponent(s, k + 3 * n, Append(acc, ch))

\* replace(/\/+/g, '/')
RECURSIVE Squeeze(_)
Squeeze(s) ==
  IF Len(s) <= 1 THEN s
  ELSE IF s[1] = "/" /\ s[2] = "/" THEN Squeeze(Tail(s))
  ELSE <<s[1]>> \o Squeeze(Tail(s))

\* normalizeDecodedPath(raw)
normalizeDecodedPath(raw) ==
  LET d == decodeURIComponent(raw, 1, <<>>)
      decoded == Squeeze(IF d.ok THEN d.str ELSE raw)
      cut == IF decoded # <<"/">> /\ decoded # <<>> /\ decoded[Len(decoded)] = "/"
             THEN SubSeq(decoded, 1, Len(decoded) - 1)
             ELSE decoded
  IN  IF cut = <<>> THEN <<"/">> ELSE cut

\* The raw paths of SpecPath: every string of up to MaxPathLen of these
\* characters, and three spellings of /a/b.
PathChars == {"/", "%", "2", "5", "F", "a"}
Spellings ==
  {<<"/", "a", "/", "/", "b", "/">>, <<"/", "a", "/", "b">>,
   <<"%", "2", "F", "a", "%", "2", "F", "b">>}
RawPaths == UNION {[1 .. n -> PathChars] : n \in 0 .. MaxPathLen} \cup Spellings

\* -------------------------------------------- normalizeDecodedPath on its own
PathCalls == {1}

InitPath ==
  /\ InitApi(PathCalls, 1, 0, 1, 0, Configured)
  /\ blockGoHttpClient = TRUE
  /\ refreshTimers = [map |-> <<>>, pending |-> {}, last |-> <<>>]
  /\ req \in [PathCalls -> {[url |-> u] : u \in RawPaths}]
  /\ res = [c \in PathCalls |-> NoVal]
  /\ starts = <<>>

\* getRequestPath / the path parameter of /__refresh: the raw path is normalized.
NormalizePath(c) ==
  /\ callers[c].pc = "idle"
  /\ callers' = [callers EXCEPT ![c].op = "path", ![c].pc = "path",
                                ![c].arg = normalizeDecodedPath(req[c].url)]
  /\ UNCHANGED <<now, limVars, listVars, dlVars, authVars, authLog, cfgVars, davVars,
                 task, starts>>

\* The normalized path is handed to normalizeDecodedPath once more.
NormalizeAgain(c) ==
  /\ callers[c].pc = "path"
  /\ callers' = [callers EXCEPT ![c].pc = "done",
                                ![c].val = [kind |-> "path",
                                            path |-> normalizeDecodedPath(callers[c].arg)]]
  /\ UNCHANGED <<now, limVars, listVars, dlVars, authVars, authLog, cfgVars, davVars,
                 task, starts>>

NextPath ==
  \/ \E c \in PathCalls : NormalizePath(c)
  \/ \E c \in PathCalls : NormalizeAgain(c)

SpecPath == InitPath /\ [][NextPath]_vars

\* ------------------------------------------------- parseTimestamp on its own
\* A timestamp of the upstream is missing, a number or a string.  Numbers are
\* kept as their decimal digits, integer part (without leading zeros) and
\* fraction, since they exceed 10^10; a string is the sequence of its
\* characters.
MaxPrefix == 2         \* characters of a timestamp before its run of zeros
TimeChars == {"0", "1", "9", "a", " "}
Zeros(n) == [i \in 1 .. n |-> "0"]
ZeroRuns == {0, 9, 10, 12}
Digits == {"0", "1", "2", "3", "4", "5", "6", "7", "8", "9"}
DateTexts == {<<"2", "0", "2", "5", "-", "0", "4", "-", "0", "3">>}
TimeTexts ==
  {p \o Zeros(z) : p \in UNION {[1 .. n -> TimeChars] : n \in 0 .. MaxPrefix}, z \in ZeroRuns}
    \cup DateTexts \cup {<<"a", "-", "b">>}

RECURSIVE stripZeros(_)
stripZeros(ds) == IF ds # <<>> /\ Head(ds) = "0" THEN stripZeros(Tail(ds)) ELSE ds
RECURSIVE stripTrailingZeros(_)
stripTrailingZeros(ds) ==
  IF ds # <<>> /\ ds[Len(ds)] = "0" THEN stripTrailingZeros(SubSeq(ds, 1, Len(ds) - 1)) ELSE ds

Number(ds) == [type |-> "number", int |-> stripZeros(ds), frac |-> <<>>]
Timestamps ==
  {[type |-> "undefined"]}
    \cup {[type |-> "string", text |-> s] : s \in TimeTexts}
    \cup {Number(s) : s \in {x \in TimeTexts : \A i \in 1 .. Len(x) : x[i] \in Digits}}

\* Date.now() / 1000 and new Date(timestamp).getTime() / 1000
CurrentTime == [type |-> "now"]
DateOf(text) == [type |-> "date", text |-> text]
NaN == [type |-> "NaN"]

\* parseInt(timestamp) of a string without "-": white space, then the decimal
\* digits up to the first other character.
RECURSIVE leadingDigits(_)
leadingDigits(s) ==
  IF s # <<>> /\ Head(s) \in Digits THEN <<Head(s)>> \o leadingDigits(Tail(s)) ELSE <<>>
RECURSIVE parseInt(_)
parseInt(s) ==
  IF s # <<>> /\ Head(s) = " " THEN parseInt(Tail(s))
  ELSE IF leadingDigits(s) = <<>> THEN NaN ELSE Number(leadingDigits(s))

\* num > 10000000000 and num / 1000
exceeds(num) ==
  \/ Len(num.int) > 11
  \/ Len(num.int) = 11 /\ num.int # <<"1">> \o Zeros(10)
divide(num) ==
  [type |-> "number",
   int |-> SubSeq(num.int, 1, Len(num.int) - 3),
   frac |-> stripTrailingZeros(SubSeq(num.int, Len(num.int) - 2, Len(num.int)) \o num.frac)]

\* !timestamp
falsy(timestamp) ==
  \/ timestamp.type = "undefined"
  \/ timestamp.type = "number" /\ timestamp.int = <<>> /\ timestamp.frac = <<>>
  \/ timestamp.type = "string" /\ timestamp.text = <<>>

\* parseTimestamp(timestamp)
parseTimestamp(timestamp) ==
  IF falsy(timestamp) THEN CurrentTime
  ELSE IF timestamp.type = "number" THEN timestamp
  ELSE IF \E i \in 1 .. Len(timestamp.text) : timestamp.text[i] = "-"
  THEN IF timestamp.text \in DateTexts THEN DateOf(timestamp.text) ELSE CurrentTime
  ELSE LET num == parseInt(timestamp.text)
       IN  IF num = NaN THEN CurrentTime
           ELSE IF exceeds(num) THEN divide(num) ELSE num

InitTime ==
  /\ InitApi(PathCalls, 1, 0, 1, 0, Configured)
  /\ blockGoHttpClient = TRUE
  /\ refreshTimers = [map |-> <<>>, pending |-> {}, last |-> <<>>]
  /\ req \in [PathCalls -> {[timestamp |-> t] : t \in Timestamps}]
  /\ res = [c \in PathCalls |-> NoVal]
  /\ starts = <<>>

\* formatFileList takes the mtime of an entry from the item's timestamp.
ParseTimestamp(c) ==
  /\ callers[c].pc = "idle"
  /\ callers' = [callers EXCEPT ![c].op = "mtime", ![c].pc = "done",
                                ![c].val = [kind |-> "mtime",
                                            mtime |-> parseTimestamp(req[c].timestamp)]]
  /\ UNCHANGED <<now, limVars, listVars, dlVars, authVars, authLog, cfgVars, davVars,
                 task, starts>>

NextTime == \E c \in PathCalls : ParseTimestamp(c)

SpecTime == InitTime /\ [][NextTime]_vars

\* --------------------------------------- the WebDAV server: request handlers
MaxHandlers == 1       \* requests in progress at a time in SpecDav and SpecGet

\* encodeURIComponent of one character: the unreserved ones stay, another
\* ASCII character becomes %XX.  The characters written <..> (beyond printable
\* ASCII) are in no name of this remote and stay as they are.
encodeURIComponent(ch) ==
  LET known == \E i \in 1 .. 95 : Ascii[i] = ch
      code == (CHOOSE i \in 1 .. 95 : Ascii[i] = ch) + 31
      unreserved ==
        \/ code >= 48 /\ code <= 57
        \/ code >= 65 /\ code <= 90
        \/ code >= 97 /\ code <= 122
        \/ ch \in {"-", "_", ".", "!", "~", "*", "'", "(", ")"}
  IN  IF ~known \/ unreserved THEN <<ch>>
      ELSE <<"%", HexDigits[(code \div 16) + 1], HexDigits[(code % 16) + 1]>>

\* encodeHrefPath(path) from the first slash on (`inside`): the segments are
\* encoded and joined with slashes again; what stands before the first slash
\* is dropped.
RECURSIVE encodeSegments(_, _)
encodeSegments(s, inside) ==
  IF s = <<>> THEN <<>>
  ELSE IF Head(s) = "/" THEN <<"/">> \o encodeSegments(Tail(s), TRUE)
  ELSE IF inside THEN encodeURIComponent(Head(s)) \o encodeSegments(Tail(s), TRUE)
  ELSE encodeSegments(Tail(s), FALSE)

encodeHrefPath(path) ==
  IF path = <<>> \/ path = <<"/">> THEN <<"/">> ELSE encodeSegments(path, FALSE)

ensureTrailingSlash(p) == IF p # <<>> /\ p[Len(p)] = "/" THEN p ELSE Append(p, "/")

\* generateFileResponse(href, file): the <d:response> element, with what the
\* claims look at: the href, <d:collection/>, <d:getcontentlength>.
generateFileResponse(href, file) ==
  [href |-> href, collection |-> (file.type = "directory"),
   contentlength |-> (file.type # "directory")]

\* generatePropfindResponse that lists the children at every depth.
PropfindAnyDepth(items, basePath, depth) ==
  <<generateFileResponse(ensureTrailingSlash(encodeHrefPath(basePath)), [type |-> "directory"])>>
    \o [i \in 1 .. Len(items) |->
          LET p == (IF basePath = <<"/">> THEN <<>> ELSE basePath) \o <<"/", items[i].name>>
          IN  generateFileResponse(
                encodeHrefPath(IF items[i].type = "directory" THEN ensureTrailingSlash(p) ELSE p),
                items[i])]

\* generatePropfindResponse(items, basePath, depth): the <d:response> elements
\* of the multistatus; the names of this remote are single characters.
generatePropfindResponse(items, basePath, depth) ==
  <<generateFileResponse(ensureTrailingSlash(encodeHrefPath(basePath)), [type |-> "directory"])>>
    \o (IF depth # "0"
        THEN [i \in 1 .. Len(items) |->
               LET p == (IF basePath = <<"/">> THEN <<>> ELSE basePath) \o <<"/", items[i].name>>
               IN  generateFileResponse(
                     encodeHrefPath(IF items[i].type = "directory" THEN ensureTrailingSlash(p)
                                    ELSE p),
                     items[i])]
        ELSE <<>>)

\* A GET handler that asks for the link without the client's agent.
NoClientAgent(rq) == ""

\* req.headers['user-agent'] || ''
clientUserAgent(rq) == rq.ua

\* The requests: /, /a/, /m and /a/f, with the Depth header ("" when absent)
\* of a PROPFIND and the User-Agent ("" when absent) of a GET.
DavUrls == {<<"/">>, <<"/", "a", "/">>, <<"/", "m">>, <<"/", "a", "/", "f">>}
Depths == {"", "0", "1"}
Handlers == 1 .. MaxHandlers
\* The call sites of getFileList below a handler: the listing that becomes
\* `items` in resolvePathForListing, the loop of getFileByPath and its tail.
DavSites == {"items", "find", "tail"}

\* A response; type and items keep, as history, what resolvePathForListing
\* returned to the PROPFIND handler.
Response(status, location, type, items, body) ==
  [status |-> status, location |-> location, type |-> type, items |-> items, body |-> body]
Status(status) == Response(status, "", "", <<>>, <<>>)

\* resolvePathForListing(path) up to its first await: the directory to list
\* and the call site: the root, the directory the path index names for the
\* path, or the root as the first step of getFileByPath.
resolvePathForListing(index, path, parts) ==
  LET cached == IF parts \in DOMAIN index THEN index[parts] ELSE NoEntry
  IN  IF path = <<"/">> THEN [d |-> "0", site |-> "items"]
      ELSE IF cached # NoEntry /\ cached.type = "directory" /\ cached.id # ""
      THEN [d |-> cached.id, site |-> "items"]
      ELSE [d |-> "0", site |-> "find"]

\* PROPFIND arrives.
Propfind(c, url, depth) ==
  /\ Arrives(c)
  /\ \E path \in {normalizeDecodedPath(url)} : \E parts \in {SplitPath(path, "", <<>>)} :
     \E to \in {resolvePathForListing(pathToIdCache, path, parts)} :
       /\ req' = [req EXCEPT ![c] = [method |-> "PROPFIND", url |-> url,
                                     depth |-> IF depth = "" THEN "1" ELSE depth, ua |-> ""]]
       /\ CallGetFileList(c, [callers[c] EXCEPT !.op = "PROPFIND", !.arg = parts,
                                                !.cur = to.d, !.idx = 1],
                          to.d, to.site, fileListCache)
  /\ UNCHANGED <<now, downloadLimiter, pathToIdCache, dlVars, authVars, authLog, cfgVars,
                 blockGoHttpClient, res, refreshTimers, starts>>

\* GET or HEAD arrives: resolvePathToFile answers for the root itself (GET
\* then sends 405, HEAD 200) and resolves any other path with getFileByPath.
GetOrHead(c, method, url, ua) ==
  /\ Arrives(c)
  /\ \E path \in {normalizeDecodedPath(url)} :
     \E cr \in {[callers[c] EXCEPT !.op = method, !.arg = SplitPath(path, "", <<>>),
                                  !.cur = "0", !.idx = 1]} :
       /\ req' = [req EXCEPT ![c] = [method |-> method, url |-> url, depth |-> "", ua |-> ua]]
       /\ IF path = <<"/">>
          THEN /\ res' = [res EXCEPT ![c] = Status(IF method = "GET" THEN 405 ELSE 200)]
               /\ callers' = [callers EXCEPT ![c] = [cr EXCEPT !.pc = "done"]]
               /\ UNCHANGED <<listLimiter, fileListCache, listInflight, task>>
          ELSE /\ CallGetFileList(c, cr, "0", "find", fileListCache)
               /\ UNCHANGED res
  /\ UNCHANGED <<now, downloadLimiter, pathToIdCache, dlVars, authVars, authLog, cfgVars,
                 blockGoHttpClient, refreshTimers, starts>>

\* What a handler does next: send the response r, call getFileList(d) at a
\* call site as the call cr, or call getDownloadUrl for a file.
Then(do, r, cr, d, site, file) ==
  [do |-> do, r |-> r, cr |-> cr, d |-> d, site |-> site, file |-> file]

\* The handler of request rq, whose call stands at cr, from the value it
\* awaited on.  In getFileByPath (sites "find" and "tail") the segment is
\* looked up: the walk descends, ends with the file or the directory found
\* (resolved), or gives up with null, which is a 404.  With the resolved entry
\* PROPFIND lists a directory and answers for a file, HEAD answers, GET
\* refuses a directory and the blocked agent and asks for the link.  With the
\* listing that is `items` PROPFIND answers; with the link GET redirects.
\* Whatever was thrown becomes a 500.
Resume(cr, rq, block) ==
  LET parts == cr.arg
      found == Find(cr.val.files, parts[cr.idx])
      descends == cr.site = "find" /\ found # NoEntry /\ found.type = "directory"
      resolved ==
        \/ cr.site = "tail"
        \/ cr.site = "find" /\ found # NoEntry /\ found.type = "file"
             /\ parts[cr.idx] = parts[Len(parts)]
      file == IF cr.site = "tail"
              THEN [id |-> cr.cur, name |-> parts[Len(parts)], type |-> "directory",
                    pickcode |-> ""]
              ELSE found
      answers == cr.site = "items" \/ (resolved /\ rq.method = "PROPFIND" /\ file.type = "file")
      items == IF cr.site = "items" THEN cr.val.files ELSE <<file>>
      Send(r) == Then("send", r, cr, "", "", NoEntry)
  IN  IF cr.val.kind = "err" THEN Send(Status(500))
      ELSE IF cr.site = "dl" THEN Send(Response(302, cr.val.link.url, "", <<>>, <<>>))
      ELSE IF answers
      THEN Send(Response(207, "", IF cr.site = "items" THEN "directory" ELSE "file", items,
                         generatePropfindResponse(items, normalizeDecodedPath(rq.url), rq.depth)))
      ELSE IF descends
      THEN IF cr.idx < Len(parts)
           THEN Then("list", NoVal, [cr EXCEPT !.cur = found.id, !.idx = @ + 1], found.id,
                     "find", NoEntry)
           ELSE Then("list", NoVal, [cr EXCEPT !.cur = found.id], found.id, "tail", NoEntry)
      ELSE IF ~resolved THEN Send(Status(404))
      ELSE IF rq.method = "PROPFIND" THEN Then("list", NoVal, cr, file.id, "items", NoEntry)
      ELSE IF rq.method = "HEAD" THEN Send(Status(200))
      ELSE IF file.type = "directory" THEN Send(Status(405))
      ELSE IF block /\ clientUserAgent(rq) = GoAgent THEN Send(Status(403))
      ELSE Then("link", NoVal, cr, "", "dl", file)

\* A handler resumes with what it awaited.
DavStep(c) ==
  /\ callers[c].pc = "got"
  /\ callers[c].site \in DavSites \cup {"dl"}
  /\ callers[c].op \in {"PROPFIND", "GET", "HEAD"}
  /\ \E to \in {Resume(callers[c], req[c], blockGoHttpClient)} :
       IF to.do = "send"
       THEN /\ res' = [res EXCEPT ![c] = to.r]
            /\ callers' = [callers EXCEPT ![c].pc = "done"]
            /\ UNCHANGED <<limVars, fileListCache, listInflight, dlVars, task>>
       ELSE IF to.do = "list"
       THEN /\ CallGetFileList(c, to.cr, to.d, to.site, fileListCache)
            /\ UNCHANGED <<res, downloadLimiter, dlVars>>
       ELSE /\ CallGetDownloadUrl(c, to.cr, to.file, clientUserAgent(req[c]))
            /\ UNCHANGED <<res, listLimiter, fileListCache, listInflight>>
  /\ UNCHANGED <<now, pathToIdCache, authVars, authLog, cfgVars, blockGoHttpClient, req,
                 refreshTimers, starts>>

\* The response is out and the handler has returned: nothing of the request
\* is left.
Close(c) ==
  /\ callers[c].pc = "done"
  /\ callers[c].op \in {"PROPFIND", "GET", "HEAD"}
  /\ callers' = [callers EXCEPT ![c] = Idle]
  /\ req' = [req EXCEPT ![c] = NoVal]
  /\ res' = [res EXCEPT ![c] = NoVal]
  /\ UNCHANGED <<now, limVars, listVars, dlVars, authVars, authLog, cfgVars, blockGoHttpClient,
                 refreshTimers, task, starts>>

\* ------------------------------------------------------- PROPFIND on its own
InitDav ==
  /\ InitApi(Handlers, MaxConcurrency, 0, MaxConcurrency, 0, Configured)
  /\ InitServer(Handlers, TRUE)
  /\ starts = <<>>

NextDav ==
  \/ \E c \in Handlers, url \in DavUrls, depth \in Depths : Propfind(c, url, depth)
  \/ \E c \in Handlers : DavStep(c)
  \/ \E c \in Handlers : Close(c)
  \/ \E item \in listLimiter.running : \E ans \in ListAnswers(item.key) :
       ListResponse(item, ans)
  \/ \E item \in listLimiter.running : \E ans \in BackupAnswers(item.key) :
       BackupResponse(item, ans)
  \/ CleanupExpiredCaches
  \/ Tick

SpecDav == InitDav /\ [][NextDav]_vars

\* ----------------------------------------------------------- GET and HEAD
\* The server with blockGoHttpClient set or not.  The links of this remote are
\* those of /m, and the requests arrive within one unit of the clock.
InitGet ==
  /\ InitApi(Handlers, MaxConcurrency, 0, MaxConcurrency, 0, Configured)
  /\ \E block \in BOOLEAN : InitServer(Handlers, block)
  /\ starts = <<>>

NextGet ==
  \/ \E c \in Handlers, url \in DavUrls \ {<<"/", "a", "/", "f">>},
          ua \in ClientAgents \cup {GoAgent, ""} :
       GetOrHead(c, "GET", url, ua)
  \/ \E c \in Handlers, url \in DavUrls \cup {<<"/", "m", "/", "m">>} :
       GetOrHead(c, "HEAD", url, "")
  \/ \E c \in Handlers : DavStep(c)
  \/ \E c \in Handlers : Close(c)
  \/ \E item \in listLimiter.running : \E ans \in ListAnswers(item.key) :
       ListResponse(item, ans)
  \/ \E item \in listLimiter.running : \E ans \in BackupAnswers(item.key) :
       BackupResponse(item, ans)
  \/ \E item \in downloadLimiter.running, ans \in DlAnswers : DlResponse(item, ans)
  \/ \E item \in downloadLimiter.running : DlResume(item)
  \/ \E item \in downloadLimiter.running, ans \in DlAnswers : DlRetryResponse(item, ans)
  \/ \E r \in refreshRuns, ans \in RefreshAnswers : RefreshResponse(r, ans)
  \/ \E r \in refreshRuns, ok \in BOOLEAN : PersistDone(r, ok)

SpecGet == InitGet /\ [][NextGet]_vars

\* ------------------------------------------------------ Basic auth and MKCOL
\* The upstream answers the listings of the warm-ups at the primary endpoint.
delayMs == 300         \* debounceRefreshDir(parentPath, 300)

\* The base64 alphabet, and the octets of a base64 string as characters.
B64 == SubSeq(Ascii, 34, 59) \o SubSeq(Ascii, 66, 91) \o SubSeq(Ascii, 17, 26) \o <<"+", "/">>

\* Buffer.from(s, 'base64').toString('utf-8') for a padded string of ASCII
\* octets: each group of four sextets gives three octets, fewer before "=".
RECURSIVE base64Decode(_)
base64Decode(s) ==
  IF Len(s) < 4 THEN <<>>
  ELSE LET v(k) == IF s[k] = "=" THEN 0 ELSE (CHOOSE i \in 1 .. 64 : B64[i] = s[k]) - 1
           bits == v(1) * 262144 + v(2) * 4096 + v(3) * 64 + v(4)
           octets == <<Chr(bits \div 65536), Chr((bits \div 256) % 256), Chr(bits % 256)>>
           n == IF s[3] = "=" THEN 1 ELSE IF s[4] = "=" THEN 2 ELSE 3
       IN  SubSeq(octets, 1, n) \o base64Decode(SubSeq(s, 5, Len(s)))

\* s.split(sep): the pieces of s between the separators, empty ones included,
\* with the piece being read (seg) and the ones read so far (acc).
RECURSIVE split(_, _, _, _)
split(s, sep, seg, acc) ==
  IF s = <<>> THEN Append(acc, seg)
  ELSE IF Head(s) = sep THEN split(Tail(s), sep, <<>>, Append(acc, seg))
  ELSE split(Tail(s), sep, Append(seg, Head(s)), acc)

\* options.username and options.password
username == <<"u">>
password == <<"p">>

\* The Authorization headers of the requests: none, another scheme, and
\* Basic with the credentials u:p, u:q, v:p, u and u:p:x.
Authorizations ==
  {<<>>, <<"B", "e", "a", "r", "e", "r", " ", "d", "T", "p", "w">>,
   <<"B", "a", "s", "i", "c", " ", "d", "T", "p", "w">>,
   <<"B", "a", "s", "i", "c", " ", "d", "T", "p", "x">>,
   <<"B", "a", "s", "i", "c", " ", "d", "j", "p", "w">>,
   <<"B", "a", "s", "i", "c", " ", "d", "Q", "=", "=">>,
   <<"B", "a", "s", "i", "c", " ", "d", "T", "p", "w", "O", "n", "g", "=">>}

\* basicAuth: whether the middleware calls next().
basicAuth(auth) ==
  IF Len(auth) < 6 \/ SubSeq(auth, 1, 6) # <<"B", "a", "s", "i", "c", " ">> THEN FALSE
  ELSE LET credentials == base64Decode(SubSeq(auth, 7, Len(auth)))
           parts == split(credentials, ":", <<>>, <<>>)
       IN  /\ parts[1] = username
           /\ Len(parts) >= 2 /\ parts[2] = password

\* res.setHeader('WWW-Authenticate', ...); res.status(401).send('Unauthorized')
Unauthorized ==
  [status |-> 401, location |-> "", type |-> "", items |-> <<>>, body |-> <<>>,
   challenge |-> "Basic realm=\"WebDAV\""]

\* fullPath.split('/').slice(0, -1).join('/') || '/'
parentPath(fullPath) ==
  LET parts == split(fullPath, "/", <<>>, <<>>)
      RECURSIVE join(_, _)
      join(ps, k) == IF k > Len(ps) THEN <<>>
                     ELSE (IF k > 1 THEN <<"/">> ELSE <<>>) \o ps[k] \o join(ps, k + 1)
      joined == join(SubSeq(parts, 1, Len(parts) - 1), 1)
  IN  IF joined = <<>> THEN <<"/">> ELSE joined

\* A debounce that does not cancel the timer it replaces.
keepTimeout(pending, old) == pending

\* if (old) clearTimeout(old)
clearTimeout(pending, old) == pending \ old

\* The collections the clients make: /n and /a/n/.
MkcolUrls == {<<"/", "n">>, <<"/", "a", "/", "n", "/">>}

\* A request arrives with an Authorization header.  Without the credentials
\* basicAuth answers 401; with them the MKCOL handler debounces the refresh of
\* the parent and answers 201.  The response is kept until the next request.
Mkcol(auth, url) ==
  /\ now < StartTime + MaxTime
  /\ req' = [req EXCEPT ![1] = [method |-> "MKCOL"]]
  /\ IF ~basicAuth(auth)
     THEN /\ res' = [res EXCEPT ![1] = Unauthorized]
          /\ UNCHANGED refreshTimers
     ELSE \E p \in {trimSlashes(parentPath(normalizeDecodedPath(url)))} :
          \E q \in {IF p = <<>> THEN <<"/">> ELSE p} :
          \E t \in {[p |-> q, at |-> now * 1000 + delayMs]} :
            /\ res' = [res EXCEPT ![1] = Status(201)]
            /\ refreshTimers' =
                 [map |-> (q :> t) @@ refreshTimers.map,
                  pending |-> clearTimeout(refreshTimers.pending,
                                           {refreshTimers.map[o] : o \in {q} \cap DOMAIN refreshTimers.map})
                                \cup {t},
                  last |-> (q :> [at |-> now,
                                  burst |-> IF q \in DOMAIN refreshTimers.map THEN 2 ELSE 1])
                             @@ refreshTimers.last]
  /\ UNCHANGED <<now, limVars, listVars, dlVars, authVars, authLog, cfgVars, blockGoHttpClient,
                 task, callers, starts>>

\* A debounce timer fires: its entry leaves the map, the parent is
\* invalidated, and refreshDirectoryByPath runs up to its first await, as the
\* call c.
RefreshTimer(c, t) ==
  /\ t \in refreshTimers.pending
  /\ now * 1000 >= t.at
  /\ Arrives(c)
  /\ refreshTimers' = [refreshTimers EXCEPT
       !.map = [o \in DOMAIN refreshTimers.map \ {t.p} |-> refreshTimers.map[o]],
       !.pending = @ \ {t},
       !.last = [@ EXCEPT ![t.p].at = 0]]
  /\ \E r \in {invalidateByPath(pathToIdCache, fileListCache, t.p)} :
     \E cr \in {[callers[c] EXCEPT !.op = "warm", !.arg = SplitPath(t.p, "", <<>>),
                                   !.cur = "0", !.idx = 1]} :
       /\ pathToIdCache' = r.index
       /\ CallGetFileList(c, cr, "0", IF t.p = <<"/">> THEN "warm" ELSE "walk", r.cache)
  /\ UNCHANGED <<now, downloadLimiter, dlVars, authVars, authLog, cfgVars, blockGoHttpClient,
                 req, res, starts>>

\* The timer callback has returned.
RefreshReturns(c) ==
  /\ callers[c].op = "warm"
  /\ callers[c].pc = "done" \/ (callers[c].pc = "got" /\ callers[c].site = "warm")
  /\ callers' = [callers EXCEPT ![c] = Idle]
  /\ UNCHANGED <<now, limVars, listVars, dlVars, authVars, authLog, cfgVars, davVars, task, starts>>

\* Time passes while a debounce timer waits for it.
TimerTick ==
  /\ \E t \in refreshTimers.pending : t.at > now * 1000
  /\ now' = now + 1
  /\ UNCHANGED <<limVars, listVars, dlVars, authVars, authLog, cfgVars, davVars, task, callers, starts>>

InitMkcol ==
  /\ InitApi(Callers, MaxConcurrency, 0, MaxConcurrency, 0, Configured)
  /\ InitServer({1}, FALSE)
  /\ starts = <<>>

\* The upstream answers a listing with the directory as it stands, or with a
\* business failure.
NextMkcol ==
  \/ \E auth \in Authorizations, url \in MkcolUrls : Mkcol(auth, url)
  \/ \E t \in refreshTimers.pending : \E c \in Callers :
       (\A d \in 1 .. c - 1 : ~Arrives(d)) /\ RefreshTimer(c, t)
  \/ \E c \in Callers : WalkStep(c)
  \/ \E c \in Callers : RefreshReturns(c)
  \/ \E item \in listLimiter.running :
     \E ans \in {a \in BackupAnswers(item.key) :
                  \/ a.kind = "fail"
                  \/ a.kind = "ok" /\ \A b \in BackupAnswers(item.key) :
                                        b.kind = "ok" => Len(b.files) <= Len(a.files)} :
       ListResponse(item, ans)
  \/ TimerTick

SpecMkcol == InitMkcol /\ [][NextMkcol]_vars

\* The event loop does not stop while it has work: as long as time can pass
\* towards a timer, a timer is due, a callback can go on or return, or the
\* upstream has an answer to give, one of these happens.
FairMkcol ==
  /\ SpecMkcol
  /\ WF_vars(\/ TimerTick
             \/ \E t \in refreshTimers.pending : \E c \in Callers : RefreshTimer(c, t)
             \/ \E c \in Callers : WalkStep(c)
             \/ \E c \in Callers : RefreshReturns(c)
             \/ \E item \in listLimiter.running :
                \E ans \in {a \in BackupAnswers(item.key) :
                             \/ a.kind = "fail"
                             \/ a.kind = "ok" /\ \A b \in BackupAnswers(item.key) :
                                                   b.kind = "ok" => Len(b.files) <= Len(a.files)} :
                  ListResponse(item, ans))

\* ------------------------------------------------------------- the claims
\* The tasks a limiter holds for one key, queued, waiting or running.
PendingFor(lim, key) == {x \in Pending(lim) : x.key = key}

\* The upstream calls under way: listing tasks at either endpoint, download
\* tasks at their first or second request, refresh closures at their POST.
ListCalls(d) ==
  {x \in listLimiter.running : x.key = d /\ task[x.by].pc \in {"primary", "backup"}}
DownloadCalls(k) ==
  {x \in downloadLimiter.running : x.key = k /\ task[x.by].pc \in {"req1", "req2"}}
RefreshCalls == {r \in refreshRuns : r.pc = "post"}

\* C1: in every reachable state there is at most one upstream listing call in
\* flight per directory id, at most one download-link task in flight per key
\* fileId|pickcode|userAgent, and at most one token-refresh call in flight,
\* under any interleaving of getFileList, getDownloadUrl, refreshAccessToken,
\* invalidateByPath and refreshDirectoryByPath.
C1_OneInFlight ==
  /\ \A d \in Dirs : Cardinality(ListCalls(d)) <= 1
  /\ \A d \in Dirs : Cardinality(PendingFor(listLimiter, d)) <= 1
  /\ \A k \in DlKeys : Cardinality(DownloadCalls(k)) <= 1
  /\ \A k \in DlKeys : Cardinality(PendingFor(downloadLimiter, k)) <= 1
  /\ Cardinality(RefreshCalls) <= 1
  /\ Cardinality(refreshRuns) <= 1

\* The listing of the root is being fetched for a refreshDirectoryByPath while
\* a getFileList call for the root waits for the same task.
C1_Witness ==
  \E c1, c2 \in Callers :
    /\ c1 # c2
    /\ callers[c1].op = "warm" /\ callers[c1].pc = "await"
    /\ callers[c1].prom = ListItem("0", c1, "warm")
    /\ ListCalls("0") = {callers[c1].prom}
    /\ callers[c2].op = "list" /\ callers[c2].pc = "await"
    /\ callers[c2].prom = callers[c1].prom

\* C2: the getFileList calls for a directory that arrive while the first
\* one's upstream call is under way all await the one task there is for that
\* directory, and everyone who awaited the same task received the same
\* outcome, the same listing or the same error.
C2_OneFetchOneOutcome ==
  /\ \A c \in Callers :
       callers[c].pc = "await" =>
         /\ callers[c].prom = listInflight[callers[c].prom.key]
         /\ PendingFor(listLimiter, callers[c].prom.key) = {callers[c].prom}
  /\ \A c1, c2 \in Callers :
       /\ callers[c1].pc = "got" /\ callers[c2].pc = "got"
       /\ callers[c1].prom # NULL /\ callers[c1].prom = callers[c2].prom
       => callers[c1].val = callers[c2].val

\* Two getFileList calls for one directory were answered by one task, with
\* the listing it fetched.
C2_Witness ==
  \E c1, c2 \in Callers :
    /\ c1 # c2
    /\ callers[c1].op = "list" /\ callers[c2].op = "list"
    /\ callers[c1].pc = "got" /\ callers[c2].pc = "got"
    /\ callers[c1].prom # NULL /\ callers[c1].prom = callers[c2].prom
    /\ callers[c1].val.kind = "ok" /\ callers[c1].val.files # <<>>
    /\ callers[c1].val = callers[c2].val

\* C3: with concurrency = 1 and minIntervalMs = T, any two task starts are at
\* least T apart and at most one task is active at any instant.
C3_SerialSpacing ==
  listLimiter.concurrency = 1 =>
    /\ \A i, j \in StartedTasks : i # j => Apart(i, j) >= listLimiter.minIntervalMs
    /\ listLimiter.active <= 1
    /\ Cardinality(listLimiter.running) + Cardinality(listLimiter.timers) <= 1

\* Two tasks have been started one interval apart after a burst of submissions.
C3_Witness ==
  /\ listLimiter.concurrency = 1
  /\ listLimiter.minIntervalMs = MaxInterval
  /\ \E i, j \in StartedTasks : i # j /\ Apart(i, j) = MaxInterval
  /\ \E k \in Tasks : callers[k].pc = "await" /\ starts[k] = -1

\* C4: for any configured concurrency, any two task starts are at least
\* minIntervalMs apart.
C4_AllStartsSpaced ==
  \A i, j \in StartedTasks : i # j => Apart(i, j) >= listLimiter.minIntervalMs

\* C5: 0 <= active <= concurrency in every reachable state.
C5_ActiveBounded ==
  /\ 0 <= listLimiter.active
  /\ listLimiter.active <= listLimiter.concurrency
  /\ listLimiter.active = Cardinality(listLimiter.running) + Cardinality(listLimiter.timers)

\* The limiter is full, a drain is waiting for the interval and a task is queued.
C5_Witness ==
  /\ listLimiter.concurrency = MaxConcurrency
  /\ listLimiter.active = listLimiter.concurrency
  /\ listLimiter.timers # {}
  /\ \E i \in Tasks : callers[i].pc = "done" /\ callers[i].val.kind = "err"

\* C6: no submitted task is dropped: every submitted task is eventually
\* started, exactly once, and its handle settles with that task's own outcome,
\* also behind a task that failed.
C6_NoTaskDropped ==
  /\ \A i \in Tasks : (callers[i].pc = "await") ~> (callers[i].pc = "done")
  /\ [](\A i \in Tasks :
          /\ Cardinality({x \in listLimiter.running \cup {e.item : e \in listLimiter.timers} : x = TaskItem(i)})
               + Len(SelectSeq(listLimiter.queue, LAMBDA x : x = TaskItem(i))) <= 1
          /\ callers[i].pc = "done" => starts[i] >= 0 /\ callers[i].val.of = i)

\* Every task has settled, one of them with an error, after having queued.
C6_Witness ==
  /\ \A i \in Tasks : callers[i].pc = "done"
  /\ \E i \in Tasks : callers[i].val.kind = "err"
  /\ \E i, j \in Tasks : i # j /\ starts[j] > starts[i] /\ callers[i].val.kind = "err"
  /\ listLimiter.concurrency = 1

\* The calls of getFileList and getDownloadUrl that have returned a value.
Served(cs) ==
  {c \in cs : callers[c].op \in {"list", "warm", "dl"} /\ callers[c].pc = "got"
              /\ callers[c].val.kind = "ok"}

\* C7: getFileList and getDownloadUrl never return a cached value whose
\* expiresAt is at or before the current time, whether or not
\* cleanupExpiredCaches has run; an expired entry is treated exactly like an
\* absent one and leads to a join or a new upstream call.
C7_NoExpiredHit ==
  /\ \A c \in Served(Callers) : callers[c].val.src = "cache" => ~callers[c].val.stale
  /\ \A d \in Dirs :
       fileListCache[d] # NoEntry /\ fileListCache[d].expiresAt <= now =>
         /\ ListRoute(fileListCache, listInflight, d, now) # "hit"
         /\ ListRoute(fileListCache, listInflight, d, now)
              = ListRoute([fileListCache EXCEPT ![d] = NoEntry], listInflight, d, now)
  /\ \A k \in DlKeys :
       downloadUrlCache[k] # NoEntry /\ downloadUrlCache[k].expiresAt <= now =>
         /\ DlRoute(downloadUrlCache, downloadUrlInflight, k, now) # "hit"
         /\ DlRoute(downloadUrlCache, downloadUrlInflight, k, now)
              = DlRoute([downloadUrlCache EXCEPT ![k] = NoEntry], downloadUrlInflight, k, now)

\* The listing one call fetched expires at this very instant and is still in
\* the cache, and a later call for the same directory awaits a new upstream
\* call of its own.
C7_Witness ==
  \E d \in Dirs, c1, c2 \in Callers :
    /\ fileListCache[d] # NoEntry
    /\ fileListCache[d].expiresAt = now
    /\ callers[c1].op = "list" /\ callers[c1].pc = "await"
    /\ callers[c1].prom = ListItem(d, c1, "list")
    /\ c2 \in Served(Callers) /\ callers[c2].op = "list" /\ callers[c2].arg = d
    /\ callers[c2].val.src = "fetch"
    /\ callers[c2].val.files = fileListCache[d].files

\* The calls of refreshAccessToken that have returned.
Returned == {c \in Refreshers : callers[c].op = "refresh" /\ callers[c].pc = "got"}

\* C8: the refreshAccessToken calls made while a refresh is in flight cause
\* no further upstream call: there is one refresh closure, everyone waiting
\* for a refresh waits for it, and everyone who waited for the same refresh
\* received the same token pair or the same error.
C8_OneRefreshOneOutcome ==
  /\ Cardinality(refreshRuns) <= 1
  /\ refreshPromise # NULL <=> refreshRuns # {}
  /\ \A r \in refreshRuns : refreshPromise = RunOf(r.by)
  /\ \A c \in Refreshers :
       callers[c].op = "refresh" /\ callers[c].pc = "await" => callers[c].prom = refreshPromise
  /\ \A c \in Refreshers :
       task[c].pc = "awaitRefresh" => task[c].prom = refreshPromise
  /\ \A c1, c2 \in Returned :
       callers[c1].prom # NULL /\ callers[c1].prom = callers[c2].prom
       => callers[c1].val = callers[c2].val
  /\ \A c \in Returned :
       callers[c].prom # NULL /\ callers[c].val.kind = "ok" =>
         \E u \in authLog.refreshed : u.run = callers[c].prom /\ u.pair = callers[c].val

\* Every caller called refreshAccessToken while the first call's refresh was
\* in flight, and all of them received the new token pair of that one refresh.
C8_Witness ==
  /\ Returned = Refreshers
  /\ \A c \in Refreshers : callers[c].prom = RunOf(1) /\ callers[c].val.kind = "ok"
  /\ Cardinality(authLog.refreshed) = 1

\* C9: whenever a refreshAccessToken call ends in an error, accessToken,
\* refreshToken and the last-refresh timestamp have the values they had before
\* that call.
C9_ErrorLeavesAuth ==
  \A c \in Returned : callers[c].val.kind = "err" => callers[c].left = callers[c].seen

\* C10: if the upstream refresh succeeds and onAuthUpdate then fails,
\* refreshAccessToken still succeeds and returns the new token pair to every
\* caller; the callback is invoked exactly once per successful upstream
\* refresh, with the new pair.
C10_PersistFailureTolerated ==
  /\ \A c \in Returned : \A u \in authLog.refreshed :
       u.run = callers[c].prom => callers[c].val = u.pair
  /\ authLog.updates = authLog.refreshed
  /\ authLog.count = Cardinality(authLog.refreshed)

\* How often a task's history has the event e.
Count(log, e) == Len(SelectSeq(log, LAMBDA x : x = e))
\* The download tasks that take the step to return from requestWithAutoRefresh.
Returns(c) == task[c].pc \in {"req1", "req2", "rethrow"} /\ task'[c].pc = "-"

\* C11 as stated: every requestWithAutoRefresh call whose first response
\* carries an invalid-token code invokes the refresh and re-issues the request
\* exactly once, so that it returns after two upstream requests.
C11_AlwaysReissued ==
  [][\A c \in Refreshers :
       Returns(c) /\ Count(task[c].log, "invalid") > 0 =>
         Count(task[c].log, "refresh") = 1 /\ Count(task[c].log, "send") = 2]_vars

\* C11, amended: a requestWithAutoRefresh call whose first response carries an
\* invalid-token code invokes the refresh once; when the refresh returns, the
\* request is re-issued exactly once and the second response is returned as it
\* is, with no further refresh; when the refresh throws, the request is not
\* re-issued and the refresh error leaves the call.  No call makes more than
\* two upstream requests.
C11_RetryOnce ==
  /\ [](\A c \in Refreshers :
          /\ Count(task[c].log, "send") <= 2
          /\ Count(task[c].log, "refresh") = Count(task[c].log, "invalid")
          /\ Count(task[c].log, "refresh") <= 1
          /\ task[c].pc = "req1" => task[c].log = <<"send">>
          /\ task[c].pc \in {"awaitRefresh", "retry", "rethrow"} =>
               task[c].log = <<"send", "invalid", "refresh">>
          /\ task[c].pc = "req2" => task[c].log = <<"send", "invalid", "refresh", "send">>
          /\ task[c].pc = "retry" => task[c].val.kind = "ok"
          /\ task[c].pc = "rethrow" => task[c].val.kind = "err")
  /\ [][\A c \in Refreshers :
          /\ task[c].pc = "req2" /\ task'[c] # task[c] =>
               /\ task'[c].pc = "-"
               /\ refreshRuns' = refreshRuns /\ refreshPromise' = refreshPromise
               /\ \A b \in Refreshers :
                    callers[b].op = "dl" /\ callers[b].pc = "await" /\ callers[b].prom.by = c =>
                      /\ callers'[b].pc = "got"
                      /\ callers'[b].val.kind = "err" =>
                           callers'[b].val.why \in {"invalid", "fail", "throw"}
          /\ task[c].pc = "rethrow" /\ task'[c] # task[c] =>
               /\ task'[c].pc = "-"
               /\ \A b \in Refreshers :
                    callers[b].op = "dl" /\ callers[b].pc = "await" /\ callers[b].prom.by = c =>
                      callers'[b].pc = "got" /\ callers'[b].val = task[c].val
          /\ task[c].pc = "retry" /\ task'[c] # task[c] => task'[c].pc = "req2"]_vars

\* One call got the invalid-token answer of its retry after a refresh that
\* succeeded upstream, and another call's request failed behind a refresh that
\* threw.
C11_Witness ==
  \E c1, c2 \in Refreshers :
    /\ callers[c1].op = "dl" /\ callers[c1].pc = "got"
    /\ callers[c1].val = Thrown("invalid")
    /\ authLog.count = 1
    /\ callers[c2].op = "dl" /\ callers[c2].pc = "await"
    /\ task[c2].pc = "rethrow"

\* C13: when refreshDirectoryByPath(path) has completed successfully, the
\* listing it left in the cache is the result of an upstream listing call that
\* started after refreshDirectoryByPath was invoked, also when a listing call
\* for the same directory was already in flight at the invocation.
C13_RefreshFetchesAnew ==
  \A c \in Callers :
    /\ callers[c].op = "warm" /\ callers[c].site = "warm"
    /\ callers[c].pc = "got" /\ callers[c].val.kind = "ok"
    => callers[c].prom # NULL /\ callers[c].prom \notin callers[c].seen

\* C14: when an upstream listing or download-link call fails, the error
\* reaches the original caller and every joiner, and the failed call writes no
\* cache entry for its key.
C14_FailureReachesAll ==
  /\ [](\A c \in Callers :
          callers[c].pc = "got" /\ callers[c].prom # NULL /\ callers[c].val.kind = "ok"
          => callers[c].val.src = "fetch")
  /\ [][\A c \in Callers :
          callers[c].pc = "await" /\ callers'[c].pc = "got"
          /\ (callers'[c].val.kind = "err" \/ callers'[c].val.src = "failure")
          => /\ fileListCache' = fileListCache
             /\ downloadUrlCache' = downloadUrlCache
             /\ \A b \in Callers :
                  callers[b].pc = "await" /\ callers[b].prom = callers[c].prom
                  => callers'[b].pc = "got" /\ callers'[b].val = callers'[c].val]_vars

\* C15: a listing call whose upstream answer is a business failure (state
\* false) with another code than the one of the secondary endpoint ends in an
\* error: no call of getFileList, from outside or from the path resolution,
\* comes back with an empty listing that stands for the failure.
C15_FailureIsAnError ==
  \A c \in Callers :
    callers[c].site \in Sites /\ callers[c].pc = "got" /\ callers[c].val.kind = "ok"
    => callers[c].val.src # "failure"

\* C16: normalizeDecodedPath is idempotent and total: for every input string p
\* it returns a path, normalize(normalize(p)) = normalize(p), and '/a//b/',
\* '/a/b' and '%2Fa%2Fb' all map to the same key.
C16_NormalizeIdempotent ==
  /\ \A c \in PathCalls :
       callers[c].pc = "done" => callers[c].val.path = callers[c].arg
  /\ \A c \in PathCalls :
       callers[c].pc # "idle" => Len(callers[c].arg) > 0
  /\ \A u \in Spellings : normalizeDecodedPath(u) = <<"/", "a", "/", "b">>
\* C12: the path index never changes the outcome of a request.  When PROPFIND
\* takes the directory to list from the index while a walk from the root would
\* be answered from the cached root listing, that listing has the path's first
\* segment as a directory with the same id.
C12_IndexAgreesWithWalk ==
  [][\A c \in Handlers :
       (/\ callers[c].pc = "idle"
        /\ callers'[c].op = "PROPFIND"
        /\ callers'[c].arg # <<>>
        /\ callers'[c].site = "items"
        /\ ListRoute(fileListCache, listInflight, "0", now) = "hit")
       => LET entry == Find(fileListCache["0"].files, callers'[c].arg[1])
          IN  entry # NoEntry /\ entry.type = "directory" /\ entry.id = callers'[c].cur]_vars

\* C17: the multistatus of a PROPFIND that resolved to a directory has exactly
\* one self-entry, a collection whose href is the path with a trailing slash;
\* with Depth 0 it has nothing else, otherwise one further entry per child of
\* the listing, in the listing's order, under the child's name.
C17_DirectoryMultistatus ==
  \A c \in Handlers :
    (res[c] # NoVal /\ res[c].status = 207 /\ res[c].type = "directory")
    => LET body == res[c].body
           items == res[c].items
           self == ensureTrailingSlash(normalizeDecodedPath(req[c].url))
       IN  /\ body[1].href = self /\ body[1].href[Len(self)] = "/" /\ body[1].collection
           /\ \A i \in 2 .. Len(body) : body[i].href # self
           /\ Len(body) = IF req[c].depth = "0" THEN 1 ELSE 1 + Len(items)
           /\ \A i \in 2 .. Len(body) :
                /\ body[i].collection = (items[i - 1].type = "directory")
                /\ body[i].href = self \o <<items[i - 1].name>>
                                       \o (IF body[i].collection THEN <<"/">> ELSE <<>>)

\* A PROPFIND of / with a Depth other than 0 was answered for the two
\* children of the root.
C17_Witness ==
  \E c \in Handlers :
    /\ res[c] # NoVal /\ res[c].status = 207 /\ res[c].type = "directory"
    /\ req[c].url = <<"/">> /\ req[c].depth # "0"
    /\ Len(res[c].items) = 2 /\ Len(res[c].body) = 3

\* C18: the multistatus of a PROPFIND that resolved to a file has exactly one
\* response element, for that file: not a collection, its href the path
\* without a trailing slash, with a content length; at every Depth.
C18_FileMultistatus ==
  \A c \in Handlers :
    (res[c] # NoVal /\ res[c].status = 207 /\ res[c].type = "file")
    => LET body == res[c].body
       IN  /\ Len(body) = 1
           /\ ~body[1].collection
           /\ body[1].href = normalizeDecodedPath(req[c].url)
           /\ body[1].contentlength

\* C19: with blockGoHttpClient enabled, a GET whose user agent is exactly
\* Go-http-client/1.1 has no upstream call made for it, neither a listing nor
\* a download link, and whatever it is answered with is a 403.
C19_BlockedBeforeUpstream ==
  \A c \in Handlers :
    (blockGoHttpClient /\ req[c] # NoVal /\ req[c].method = "GET" /\ req[c].ua = GoAgent)
    => /\ \A item \in listLimiter.running \cup downloadLimiter.running : item.by # c
       /\ res[c] # NoVal => res[c].status = 403

\* C20: a GET that resolved to a file asks for the download link of that
\* file's id and pickcode with the request's own User-Agent (the default agent
\* when the request has none), and its 302 carries as Location the URL the
\* upstream returned for that key.
C20_RedirectsToUpstreamLink ==
  \A c \in Handlers :
    (req[c] # NoVal /\ req[c].method = "GET")
    => LET file == Find(<<DirA, FileM>>, SplitPath(normalizeDecodedPath(req[c].url), "", <<>>)[1])
           key == DlKey(file.id, file.pickcode,
                        IF req[c].ua = "" THEN DefaultAgent ELSE req[c].ua)
       IN  /\ callers[c].site = "dl" => file.type = "file" /\ callers[c].arg = key
           /\ (res[c] # NoVal /\ res[c].status = 302)
              => /\ callers[c].site = "dl"
                 /\ res[c].location \in Urls
                 /\ downloadUrlCache[key] # NoEntry
                 /\ res[c].location = downloadUrlCache[key].value.url

\* A GET of /m with a User-Agent of its own was redirected to the link the
\* upstream had just returned, on a server that blocks the Go client.
C20_Witness ==
  \E c \in Handlers :
    /\ blockGoHttpClient
    /\ req[c] # NoVal /\ req[c].method = "GET" /\ req[c].ua \in ClientAgents
    /\ req[c].url = <<"/", "m">>
    /\ res[c] # NoVal /\ res[c].status = 302 /\ res[c].location = "u2"
    /\ callers[c].val.src = "fetch"
    /\ fileListCache["0"] # NoEntry /\ fileListCache["0"].files = <<FileM>>
    /\ accessToken = "a0"

\* What a step made of refreshAccessToken() called by c: the pair held was
\* returned with no upstream call and no onAuthUpdate ("pair"), POST
\* /open/refreshToken was sent and is awaited ("sent"), or the call threw at
\* once for want of a refresh token ("empty").
RefreshOutcome(c) ==
  IF UNCHANGED <<refreshPromise, refreshRuns, authLog, accessToken, refreshToken, lastRefreshAt>>
  THEN IF callers'[c].pc = "got" /\ callers'[c].val = Refreshed(accessToken, refreshToken)
       THEN "pair"
       ELSE IF callers'[c].pc = "got" /\ callers'[c].val = Thrown("empty")
       THEN "empty"
       ELSE "joined"
  ELSE IF /\ refreshRuns' = refreshRuns \cup {[by |-> c, pc |-> "post"]}
          /\ refreshPromise' = RunOf(c)
          /\ callers'[c].pc = "await"
          /\ UNCHANGED <<authLog, accessToken, refreshToken, lastRefreshAt>>
  THEN "sent"
  ELSE "other"

C26_InvalidatesOnlyThePath ==
  [][\A path \in InvalidatePaths :
       LET r == invalidateByPath(pathToIdCache, fileListCache, path)
           key == SplitPath(path, "", <<>>)
           held == IF key \in DOMAIN pathToIdCache THEN {pathToIdCache[key].id} ELSE {}
           gone == held \cup (IF key = <<>> THEN {"0"} ELSE {})
       IN  /\ key \notin DOMAIN r.index
           /\ DOMAIN r.index = DOMAIN pathToIdCache \ {key}
           /\ \A q \in DOMAIN r.index : r.index[q] = pathToIdCache[q]
           /\ \A d \in Dirs : r.cache[d] = IF d \in gone THEN NoEntry ELSE fileListCache[d]
           /\ InvalidateByPath(path)
              => /\ pathToIdCache' = r.index /\ fileListCache' = r.cache
                 /\ UNCHANGED <<downloadUrlCache, downloadUrlInflight, listInflight,
                                limVars, authVars>>]_vars

\* The root listing [a, m] is cached and m is indexed, a link is cached, and
\* the index entry of /a, which that listing had brought, is gone.
C26_Witness ==
  /\ <<"a">> \notin DOMAIN pathToIdCache
  /\ <<"m">> \in DOMAIN pathToIdCache
  /\ fileListCache["0"] # NoEntry /\ fileListCache["0"].files = <<DirA, FileM>>
  /\ fileListCache["1"] = NoEntry
  /\ \E k \in DlKeys : downloadUrlCache[k] # NoEntry

\* C27: an in-flight entry stands for a fetch that has not settled: the entry
\* of a directory or of a link key is an item its limiter still holds, the
\* refresh marker is a refresh still running, and whoever awaits a promise
\* awaits one that is registered and unsettled, so no call is handed the
\* outcome of a fetch that had settled before the call was made.
C27_NoStaleRegistration ==
  /\ \A d \in Dirs :
       listInflight[d] # NULL
       => listInflight[d] \in Pending(listLimiter) /\ listInflight[d].key = d
  /\ \A k \in DlKeys :
       downloadUrlInflight[k] # NULL
       => downloadUrlInflight[k] \in Pending(downloadLimiter) /\ downloadUrlInflight[k].key = k
  /\ refreshPromise # NULL => \E r \in refreshRuns : RunOf(r.by) = refreshPromise
  /\ \A c \in DOMAIN callers :
       callers[c].pc = "await"
       => IF callers[c].site = "refresh"
          THEN refreshPromise # NULL /\ callers[c].prom = refreshPromise
          ELSE IF callers[c].site = "dl"
          THEN downloadUrlInflight[callers[c].prom.key] = callers[c].prom
          ELSE listInflight[callers[c].prom.key] = callers[c].prom
  /\ \A c \in DOMAIN task :
       task[c].pc = "awaitRefresh"
       => refreshPromise # NULL /\ task[c].prom = refreshPromise

\* The first call's listing of the root failed and was delivered; the second
\* call, made for the root afterwards, is the originator of a fetch of its own.
C27_Witness ==
  /\ callers[1].op = "list" /\ callers[1].arg = "0"
  /\ callers[1].pc = "got" /\ callers[1].val.kind = "err" /\ callers[1].prom.by = 1
  /\ callers[2].op = "list" /\ callers[2].arg = "0"
  /\ callers[2].pc = "await" /\ callers[2].prom.by = 2
  /\ listInflight["0"] = callers[2].prom

\* C28: a step in which getFileList(d) or getDownloadUrl is called leaves both
\* limiters as they were when the call finds an unexpired cache entry or an
\* in-flight request for its key; otherwise its own limiter holds exactly one
\* item more, the call's, and the other limiter is as it was.
C28_OnlyOriginatorSubmits ==
  [][\A c \in Callers :
       (callers[c].pc = "idle" /\ callers'[c].op \in {"list", "dl"})
       => LET key == callers'[c].arg
              list == callers'[c].op = "list"
              served == IF list
                        THEN CacheFresh(fileListCache[key], now) \/ listInflight[key] # NULL
                        ELSE CacheFresh(downloadUrlCache[key], now)
                               \/ downloadUrlInflight[key] # NULL
              mine == IF list THEN listLimiter ELSE downloadLimiter
              mine1 == IF list THEN listLimiter' ELSE downloadLimiter'
              size(l) == Len(l.queue) + Cardinality(l.timers) + Cardinality(l.running)
          IN  IF served
              THEN UNCHANGED <<listLimiter, downloadLimiter>>
              ELSE /\ callers'[c].prom.by = c /\ callers'[c].prom.key = key
                   /\ callers'[c].prom \notin Pending(mine)
                   /\ Pending(mine1) = Pending(mine) \cup {callers'[c].prom}
                   /\ size(mine1) = size(mine) + 1
                   /\ IF list THEN UNCHANGED downloadLimiter ELSE UNCHANGED listLimiter]_vars

\* The first call fetched a link through the download limiter; the second
\* call, for the same key, was answered from the unexpired cache entry, and the
\* limiter has started that one task only.
C28_Witness ==
  /\ callers[1].op = "dl" /\ callers[1].pc = "got" /\ callers[1].val.kind = "ok"
  /\ callers[1].val.src = "fetch"
  /\ callers[2].op = "dl" /\ callers[2].pc = "got" /\ callers[2].val.kind = "ok"
  /\ callers[2].val.src = "cache" /\ callers[2].arg = callers[1].arg
  /\ downloadLimiter.lastStartAt = StartTime /\ Pending(downloadLimiter) = {}
  /\ listLimiter = NewLimiter(MaxConcurrency, ApiInterval)

\* C29: a link handed to a getDownloadUrl call that asked with agent u (the
\* default agent when it gave none) names u as its userAgent and came from the
\* request of a task whose User-Agent header was u, for the file's id and
\* pickcode: the call was served under the key of (id, pickcode, u), the task
\* it awaited was that key's with agent u, and every entry of the cache and
\* every task of the limiter carries the agent of its key.
C29_LinkMatchesAgent ==
  /\ \A c \in Callers :
       (callers[c].op = "dl" /\ callers[c].pc \in {"await", "got"})
       => LET u == IF callers[c].seen.ua = "" THEN DefaultAgent ELSE callers[c].seen.ua
              key == DlKey(FileM.id, FileM.pickcode, u)
          IN  /\ callers[c].arg = key
              /\ callers[c].prom # NULL
                 => /\ callers[c].prom.key = key /\ callers[c].prom.ua = u
                    /\ callers[c].prom.op = "dl"
              /\ (callers[c].pc = "got" /\ callers[c].val.kind = "ok")
                 => /\ callers[c].val.link.userAgent = u
                    /\ callers[c].val.link.url \in Urls
                    /\ callers[c].prom = NULL <=> callers[c].val.src = "cache"
  /\ \A ua \in Agents \cup {GoAgent} :
       LET key == DlKey(FileM.id, FileM.pickcode, ua)
       IN  /\ downloadUrlCache[key] # NoEntry => downloadUrlCache[key].value.userAgent = ua
           /\ \A item \in Pending(downloadLimiter) : item.key = key <=> item.ua = ua

\* The first call asked with the default agent and the second with a client's
\* own; each was handed a link of its own agent, minted for it, while the
\* cache holds both.
C29_Witness ==
  /\ callers[1].op = "dl" /\ callers[1].seen.ua = "" /\ callers[1].pc = "got"
  /\ callers[1].val.kind = "ok" /\ callers[1].val.link = [url |-> "u1", userAgent |-> DefaultAgent]
  /\ callers[2].op = "dl" /\ callers[2].seen.ua = "vlc" /\ callers[2].pc = "got"
  /\ callers[2].val.kind = "ok" /\ callers[2].val.link = [url |-> "u2", userAgent |-> "vlc"]
  /\ \A ua \in Agents : downloadUrlCache[DlKey(FileM.id, FileM.pickcode, ua)] # NoEntry

\* C30: when a body answers a download task, the payload used is the one under
\* the file's own id when the body has one, and the first payload otherwise;
\* a body that is empty, has state false, has no payloads, or whose payload
\* has no url makes every call awaiting the task fail and leaves the link
\* cache as it was; any other body gives them the link of the payload used and
\* caches it.
C30_ExactPayloadOrFirst ==
  [][\A item \in downloadLimiter.running, body \in Bodies :
       DlPayload(item, body)
       => LET data == body.data
              own == {i \in 1 .. Len(data) :
                        data[i].key = FileM.id /\ data[i].shape # "null"}
              used == IF own # {} THEN data[CHOOSE i \in own : TRUE] ELSE data[1]
              fails == \/ body.kind \in {"empty", "false"}
                       \/ data = <<>>
                       \/ used.shape # "link"
              waiting == {c \in Refreshers : callers[c].pc = "await" /\ callers[c].prom = item}
          IN  /\ item.by \in waiting
              /\ \A c \in waiting :
                   /\ callers'[c].pc = "got"
                   /\ IF fails
                      THEN callers'[c].val.kind = "err"
                      ELSE /\ callers'[c].val.kind = "ok"
                           /\ callers'[c].val.link = [url |-> used.url, userAgent |-> item.ua]
              /\ IF fails
                 THEN downloadUrlCache' = downloadUrlCache
                 ELSE /\ downloadUrlCache'[item.key] # NoEntry
                      /\ downloadUrlCache'[item.key].value.url = used.url]_vars

\* One call was handed the link of the file's own payload, another one,
\* later, the link of the first payload of a body that had none for the file,
\* which is the one cached now, and a third one failed.
C30_Witness ==
  \E b, c, d \in Refreshers :
    /\ callers[b].pc = "got" /\ callers[b].val.kind = "ok" /\ callers[b].val.link.url = "u1"
    /\ callers[c].pc = "got" /\ callers[c].val.kind = "ok" /\ callers[c].val.link.url = "u2"
    /\ callers[c].val.src = "fetch"
    /\ downloadUrlCache[callers[c].arg] # NoEntry
    /\ downloadUrlCache[callers[c].arg].value.url = "u2"
    /\ callers[d].pc = "got" /\ callers[d].val.kind = "err"

\* C24: getFileByPath, as HEAD shows it (200 for an entry, 404 for null, 500
\* for an error): a walk that ended in its loop returned a file only when the
\* file was matched at the last position of the path, and returned null when
\* the segment had no match in the listing or matched a file before the last
\* position.
C24_FileOnlyAtLastSegment ==
  \A c \in Handlers :
    (/\ req[c] # NoVal /\ req[c].method = "HEAD" /\ res[c] # NoVal
     /\ callers[c].site = "find" /\ callers[c].val.kind = "ok")
    => LET parts == callers[c].arg
           idx == callers[c].idx
           found == Find(callers[c].val.files, parts[idx])
       IN  /\ res[c].status \in {200, 404}
           /\ res[c].status = 200
              => found # NoEntry /\ found.type = "file" /\ idx = Len(parts)
           /\ (found = NoEntry \/ (found.type = "file" /\ idx < Len(parts)))
              => res[c].status = 404

\* C23: a GET or HEAD that was answered 404 had walked genuine listings to a
\* segment that is not there (or to a file in the way), one answered 405 is a
\* GET of a directory, and one whose walk met a failure of the upstream, or
\* anything thrown, was answered 500 and nothing else.
C23_FailureIsNever404 ==
  \A c \in Handlers :
    (req[c] # NoVal /\ res[c] # NoVal /\ callers[c].val # NoVal)
    => LET failed == callers[c].val.kind = "err" \/ callers[c].val.src = "failure"
       IN  /\ failed <=> res[c].status = 500
           /\ res[c].status = 404 => callers[c].site = "find" /\ ~failed
           /\ res[c].status = 405 => req[c].method = "GET" /\ callers[c].site = "tail"

\* C21: a MKCOL that passes the authentication is answered 201 in the step
\* in which it arrives, with no call of the upstream begun; it leaves the
\* timers of other parents alone; at any instant a parent has at most one
\* timer pending, the one the map holds for it; the timer that fires is the
\* one the last MKCOL for the parent set, a full delay or more after that
\* MKCOL, and its step invalidates the parent and starts
\* refreshDirectoryByPath for it, leaving no timer of that parent; and a
\* pending timer leads to that refresh.
Authorized == {auth \in Authorizations : basicAuth(auth)}
C21_DebouncedRefresh ==
  /\ [](/\ \A t, o \in refreshTimers.pending : t.p = o.p => t = o
        /\ refreshTimers.pending = {refreshTimers.map[q] : q \in DOMAIN refreshTimers.map}
        /\ \A q \in DOMAIN refreshTimers.map : refreshTimers.map[q].p = q)
  /\ [][/\ \A auth \in Authorized, url \in MkcolUrls :
            ((refreshTimers' # refreshTimers \/ res' # res) /\ Mkcol(auth, url))
            => /\ res'[1].status = 201
               /\ UNCHANGED <<limVars, listVars, dlVars, task, callers>>
               /\ \A t \in refreshTimers.pending :
                    t.p # parentPath(normalizeDecodedPath(url))
                    => t \in refreshTimers'.pending
               /\ \E t \in refreshTimers'.pending :
                    /\ t.p = parentPath(normalizeDecodedPath(url))
                    /\ t.at = now * 1000 + delayMs
        /\ \A t \in refreshTimers.pending : \A c \in Callers :
            (refreshTimers' # refreshTimers /\ RefreshTimer(c, t))
            => /\ refreshTimers.last[t.p].at > 0
               /\ now * 1000 >= refreshTimers.last[t.p].at * 1000 + delayMs
               /\ \A o \in refreshTimers'.pending : o.p # t.p
               /\ t.p \notin DOMAIN refreshTimers'.map
               /\ IndexKey(t.p) \notin DOMAIN pathToIdCache'
               /\ callers'[c].op = "warm" /\ callers'[c].arg = SplitPath(t.p, "", <<>>)
               /\ callers'[c].pc \in {"await", "got"}]_vars
  /\ \A q \in {<<"/">>, <<"/", "a">>} :
       (q \in DOMAIN refreshTimers.map)
         ~> (q \notin DOMAIN refreshTimers.map
               /\ \E c \in Callers : callers[c].op = "warm" /\ callers[c].arg = SplitPath(q, "", <<>>))

\* Two or more MKCOLs below /a came in one burst, which began when the clock
\* stood at its start; their one timer has fired and the refresh of /a is
\* under way, while the timer of the root, set in between, is still pending.
C21_Witness ==
  /\ <<"/", "a">> \in DOMAIN refreshTimers.last
  /\ refreshTimers.last[<<"/", "a">>].burst = 2
  /\ <<"/", "a">> \notin DOMAIN refreshTimers.map
  /\ <<"/">> \in DOMAIN refreshTimers.map
  /\ res[1] # NoVal /\ res[1].status = 201
  /\ \E c \in Callers : callers[c].op = "warm" /\ callers[c].arg = <<"a">>
                          /\ callers[c].pc = "await"

\* The credentials a Basic header carries are the configured ones: user-id
\* up to the first colon, password everything after it.
HoldsCredentials(auth) ==
  /\ Len(auth) >= 6
  /\ SubSeq(auth, 1, 6) = <<"B", "a", "s", "i", "c", " ">>
  /\ LET credentials == base64Decode(SubSeq(auth, 7, Len(auth)))
         colons == {i \in 1 .. Len(credentials) : credentials[i] = ":"}
     IN /\ colons # {}
        /\ \E i \in colons :
             /\ \A j \in colons : i <= j
             /\ SubSeq(credentials, 1, i - 1) = username
             /\ SubSeq(credentials, i + 1, Len(credentials)) = password

\* C22: a request whose Basic credentials are not the configured username
\* and password is answered 401 with the Basic challenge and reaches no
\* handler: it sets no refresh timer, starts no upstream call and changes no
\* cache and no entry of the path index.
C22_OnlyCredentialsPass ==
  [][\A auth \in Authorizations, url \in MkcolUrls :
       (Mkcol(auth, url) /\ ~HoldsCredentials(auth))
       => /\ res'[1] = Unauthorized
          /\ UNCHANGED <<refreshTimers, limVars, listVars, dlVars, task, callers>>]_vars

\* C31: the secondary listing endpoint is called by a list task whose
\* primary request was answered with errNo 20130827, and by nothing else:
\* once, for the task's directory, while the task keeps its place in the
\* limiter; a listing it answers with is cached under the directory id,
\* indexed and handed to everyone awaiting the task, as a listing of the
\* primary endpoint is.
C31_BackupOnlyAfter20130827 ==
  /\ [](\A c \in Callers : task[c].pc = "backup" =>
          /\ task[c].log = <<"send", "backup", "send">>
          /\ \E item \in listLimiter.running : item.by = c /\ item.op = "list")
  /\ [][task' # task =>
          /\ \A item \in listLimiter.running : \A ans \in ListAnswers(item.key) :
               ListResponse(item, ans) =>
                 /\ task'[item.by].pc = "backup" <=> ans.kind = "backup"
                 /\ ans.kind = "backup" =>
                      item \in listLimiter'.running /\ UNCHANGED <<listLimiter, listVars, callers>>
          /\ \A c \in Callers : task'[c].pc = "backup" /\ task[c].pc # "backup" =>
               task[c].pc = "primary"
          /\ \A item \in listLimiter.running : \A ans \in BackupAnswers(item.key) :
               BackupResponse(item, ans) =>
                 /\ task'[item.by].pc # "backup"
                 /\ item \notin listLimiter'.running
                 /\ ans.kind = "ok" =>
                      /\ fileListCache'[item.key] =
                           [files |-> ans.files, expiresAt |-> now + fileListTtlMs]
                      /\ pathToIdCache' = cachePaths(pathToIdCache, PathOf(item.key), ans.files)
                      /\ \A c \in Callers :
                           callers[c].pc = "await" /\ callers[c].prom = item =>
                             callers'[c].pc = "got" /\ callers'[c].val = Fetched(ans.files)]_vars

\* A list task is at the secondary endpoint, its primary request having been
\* answered with errNo 20130827, and a second caller awaits the same task.
C31_Witness ==
  \E item \in listLimiter.running :
    /\ task[item.by].pc = "backup"
    /\ task[item.by].log = <<"send", "backup", "send">>
    /\ \E c \in Callers : c # item.by /\ callers[c].pc = "await" /\ callers[c].prom = item

\* C32: when the upstream answers a list task with a listing, the items with
\* a file id become files, the items without one and with a directory id
\* other than "0" become directories, the other items are left out, and the
\* order is kept; the entries are cached under the task's directory id with
\* the expiry now + ttl, handed to the callers awaiting the task, and the path
\* index holds, under parentPath/name of every entry, the last entry of that
\* name.  The root listed as the file movie.mp4 and the directory Shows gives
\* two entries and the index entries /movie.mp4 and /Shows.
C32_ListingFormatted ==
  [][\A item \in listLimiter.running : \A raw \in RawAnswers(item.key) :
       RawResponse(item, raw) =>
         LET kept == SelectSeq(raw.data, LAMBDA x : x.fid # "" \/ (x.cid # "" /\ x.cid # "0"))
             files == fileListCache'[item.key].files
             parent == IF raw.path = <<RootName, "a">> THEN <<"a">> ELSE <<>>
         IN  /\ Len(files) = Len(kept)
             /\ \A i \in 1 .. Len(kept) :
                  /\ files[i].name = kept[i].n
                  /\ files[i].pickcode = kept[i].pc
                  /\ kept[i].fid # "" => files[i].type = "file" /\ files[i].id = kept[i].fid
                  /\ kept[i].fid = "" => files[i].type = "directory" /\ files[i].id = kept[i].cid
             /\ fileListCache'[item.key].expiresAt = now + fileListTtlMs
             /\ \A c \in Callers : callers[c].pc = "await" /\ callers[c].prom = item =>
                  callers'[c].pc = "got" /\ callers'[c].val.kind = "ok"
                    /\ callers'[c].val.files = files
             /\ \A i \in 1 .. Len(files) :
                  /\ Append(parent, files[i].name) \in DOMAIN pathToIdCache'
                  /\ \E j \in i .. Len(files) :
                       /\ pathToIdCache'[Append(parent, files[i].name)] = files[j]
                       /\ files[j].name = files[i].name
                       /\ \A k \in j + 1 .. Len(files) : files[k].name # files[i].name
             /\ \A q \in DOMAIN pathToIdCache' :
                  \/ q \in DOMAIN pathToIdCache /\ pathToIdCache'[q] = pathToIdCache[q]
                  \/ \E i \in 1 .. Len(files) : q = Append(parent, files[i].name)
             /\ (item.key = "0" /\ Len(raw.data) = 2 /\ raw.data[1].n = "movie.mp4"
                   /\ raw.data[1].fid # "" /\ raw.data[2].n = "Shows")
                => /\ Len(files) = 2
                   /\ files[1].type = "file" /\ files[2].type = "directory"
                   /\ pathToIdCache'[<<"movie.mp4">>] = files[1]
                   /\ pathToIdCache'[<<"Shows">>] = files[2]]_vars

\* The root has been listed as the file movie.mp4 and the directory Shows:
\* its cached listing has the two entries, the path index has /movie.mp4 and
\* /Shows, and the caller has the listing.
C32_Witness ==
  /\ fileListCache["0"] # NoEntry
  /\ Len(fileListCache["0"].files) = 2
  /\ fileListCache["0"].files[1] =
       [id |-> "f1", name |-> "movie.mp4", type |-> "file", pickcode |-> "p1"]
  /\ fileListCache["0"].files[2] =
       [id |-> "1", name |-> "Shows", type |-> "directory", pickcode |-> ""]
  /\ {<<"movie.mp4">>, <<"Shows">>} \subseteq DOMAIN pathToIdCache
  /\ pathToIdCache[<<"Shows">>].type = "directory"
  /\ \E c \in Callers : callers[c].pc = "got" /\ callers[c].val.kind = "ok"
                          /\ callers[c].val.files = fileListCache["0"].files

\* C33: for a numeric timestamp, a number other than 0 (which counts as
\* missing) or a string of decimal digits,
\* parseTimestamp returns the value divided by 1000 when it is larger than
\* 10^10 and the value itself otherwise.
C33_NumericInSeconds ==
  \A c \in PathCalls :
    callers[c].pc = "done" =>
      LET t == req[c].timestamp
          numeric == \/ t.type = "number" /\ ~falsy(t)
                     \/ t.type = "string" /\ t.text # <<>>
                          /\ \A i \in 1 .. Len(t.text) : t.text[i] \in Digits
          num == IF t.type = "number" THEN t ELSE Number(t.text)
      IN  numeric => callers[c].val.mtime = (IF exceeds(num) THEN divide(num) ELSE num)

\* C35: a download task whose first response carried an invalid-token code
\* and whose refresh threw sends nothing more: it ends with the error of
\* the refresh, which everyone awaiting the task receives.  When the refresh
\* returned, the one retry goes out with the access token held at that moment
\* as its bearer credential, whatever the first attempt carried.
C35_RetryCarriesNewToken ==
  /\ [](\A c \in Refreshers :
          /\ task[c].pc = "rethrow" =>
               task[c].val.kind = "err" /\ task[c].log = <<"send", "invalid", "refresh">>
          /\ task[c].pc = "retry" => task[c].val.kind = "ok")
  /\ [][\A c \in Refreshers :
          /\ task[c].pc = "rethrow" /\ task'[c] # task[c] =>
               /\ task'[c].pc # "req2"
               /\ \A b \in Refreshers :
                    callers[b].op = "dl" /\ callers[b].pc = "await" /\ callers[b].prom.by = c =>
                      callers'[b].pc = "got" /\ callers'[b].val = task[c].val
          /\ task'[c].pc = "req2" /\ task[c].pc # "req2" =>
               /\ task[c].pc \in {"retry", "req1"}
               /\ accessToken # "" /\ accessToken' = accessToken
               /\ task'[c].headers.Authorization = "Bearer " \o accessToken
               /\ task'[c].log = <<"send", "invalid", "refresh", "send">>]_vars

\* A download task sent its first request with the configured token, started
\* the one refresh there has been, and has its retry out with the new token.
C35_Witness ==
  \E c \in Refreshers :
    /\ task[c].pc = "req2"
    /\ task[c].prom = RunOf(c)
    /\ authLog.count = 1
    /\ accessToken = "a1"
    /\ task[c].headers.Authorization = "Bearer a1"

\* C34: with concurrency 1 on both limiters, a call of getFileList,
\* refreshDirectoryByPath (getFileByPath within it) or getDownloadUrl that
\* has been made comes to its end, with a result or an error; while a task
\* occupies a limiter no step submits another task to that limiter on its
\* behalf, and a download task keeps its place during its refresh and retry.
C34_EveryCallSettles ==
  /\ [](\A c \in Callers :
          /\ listLimiter.active <= 1 /\ downloadLimiter.active <= 1
          /\ task[c].pc \in {"awaitRefresh", "retry", "rethrow", "req2"} =>
               \E item \in downloadLimiter.running : item.by = c)
  /\ [][\A item \in listLimiter.running \cup downloadLimiter.running :
          (task'[item.by] # task[item.by]
             /\ item \in listLimiter'.running \cup downloadLimiter'.running)
          => UNCHANGED <<listLimiter, downloadLimiter>>]_vars
  /\ \A c \in Callers :
       (callers[c].pc # "idle")
         ~> \/ callers[c].pc = "done"
            \/ callers[c].pc = "got" /\ callers[c].site \notin {"walk", "final"}

\* Both calls have ended: a download whose task refreshed the token and
\* retried while it held the only slot, and a second download that had
\* waited in the queue behind it.
C34_Witness ==
  /\ downloadLimiter.concurrency = 1
  /\ authLog.count = 1
  /\ accessToken = "a1"
  /\ downloadLimiter.active = 0 /\ downloadLimiter.queue = <<>>
  /\ \A c \in Callers : callers[c].op = "dl" /\ callers[c].pc = "got"
  /\ \E c \in Callers : callers[c].val.kind = "ok" /\ callers[c].val.src = "fetch"
  /\ \E b, c \in Callers : callers[b].arg # callers[c].arg

====
